---- MODULE Spec2Model ----
(***************************************************************************)
(* A model of the Skald MUD client's core: the Telnet byte-stream parser   *)
(* (core/telnet.py), the trigger and alias registries                      *)
(* (core/managers/trigger_manager.py, core/alias_manager.py, core/app.py)  *)
(* and the room graph of the auto-mapper (ui/widgets/mapper/map_graph.py). *)
(* Each subsystem has its own specification; the variables of the other    *)
(* subsystems stay at their initial values under it.                       *)
(***************************************************************************)
EXTENDS Integers, Sequences, FiniteSets, TLC

VARIABLES
    \* ---- TelnetParser (core/telnet.py) --------------------------------
    state,      \* self.state
    pend_cmd,   \* self._pend_cmd  (0 stands for None)
    sb_opt,     \* self.sb_opt     (-1 stands for None)
    sb_buf,     \* self.sb_buf
    input,      \* the byte sequence that arrives on the socket
    pos,        \* how many bytes of input have been fed so far
    returned,   \* the frame lists returned by the feed calls so far, in order
    calls,      \* the callback invocations made so far, in order
    \* ---- TriggerManager, AliasManager, App.send_to_mud ------------------
    db,         \* the Script table, in row order
    _triggers,  \* TriggerManager._triggers
    _aliases,   \* AliasManager._aliases
    regOrder,   \* history: names of the registered triggers, oldest registration first
    lastCall,   \* the outcome of the most recent call into a manager
    \* ---- TimerManager, ScriptManager and their QTimers -------------------
    _timers,    \* TimerManager._timers: name -> index of its QTimer in qtimers
    timers,     \* ScriptManager.timers: name -> index of its QTimer in qtimers
    qtimers,    \* the QTimer objects created so far, in creation order
    \* ---- App and Context (core/context.py) -----------------------------
    gmcp_data,  \* App.gmcp_data: <<>> while the attribute is not set, else <<dict>>
    \* ---- MudConnection (core/connection.py), owned by App ----------------
    connected,        \* self.socket.state() == ConnectedState
    _send_queue,      \* self._send_queue
    _waiting_for_ga,  \* self._waiting_for_ga
    _ga_timer,        \* self._ga_timer.isActive()
    single_shots,     \* pending QTimer.singleShot(0, self._reset_and_send_next) callbacks
    written,          \* the messages handed to self.socket.write, in order
    ga_since_write,   \* history: a GA frame or GA timeout was handled since the last write
    connCall,         \* the most recent call into the connection
    \* ---- Console and ConsoleInput (ui/widgets/console), owned by App ------
    _masking,     \* ConsoleInput._masking
    _buffer,      \* ConsoleInput._buffer
    plain_text,   \* ConsoleInput.toPlainText(): what the input field shows
    selected,     \* the whole of the input field is selected
    history,      \* Console.history
    lexicon,      \* Console.lexicon
    console_out,  \* the texts echoed to the console display, in order
    uiCall,       \* the most recent event of the input field
    \* ---- MapGraph (ui/widgets/mapper/map_graph.py) ---------------------
    nodes,      \* self.nodes: the room hashes
    rooms,      \* hash -> the fields of self.nodes[hash]["room"]
    edges,      \* {a, b} -> the attributes of the edge between a and b
    mapCall,    \* the most recent call into the graph, with its small arguments
    layout      \* what the most recent layout_from_root computed

telnetVars == <<state, pend_cmd, sb_opt, sb_buf, input, pos, returned, calls>>

ruleVars == <<db, _triggers, _aliases, regOrder, lastCall>>

mapVars == <<nodes, rooms, edges, mapCall, layout>>

timerVars == <<_timers, timers, qtimers>>

connVars == <<connected, _send_queue, _waiting_for_ga, _ga_timer, single_shots,
              written, ga_since_write, connCall>>

uiVars == <<_masking, _buffer, plain_text, selected, history, lexicon,
            console_out, uiCall>>

appVars == <<gmcp_data, connVars, uiVars>>

vars == <<telnetVars, ruleVars, mapVars, timerVars, appVars>>

(***************************************************************************)
(* General helpers on sequences.                                           *)
(***************************************************************************)
RECURSIVE Flatten(_)
Flatten(ss) == IF ss = <<>> THEN <<>> ELSE Head(ss) \o Flatten(Tail(ss))

SeqsUpTo(S, n) == UNION {[1..k -> S] : k \in 0..n}

(***************************************************************************)
(* TelnetCmd                                                               *)
(***************************************************************************)
IAC   == 255
DONT  == 254
DO    == 253
WONT  == 252
WILL  == 251
SB    == 250
GA    == 249
SE    == 240
ATCP2 == 201
ECHO  == 1

MAX_SB_LEN == 4096

NUL == 0
CR  == 13
LF  == 10

\* Frames, as feed builds them.  Unused fields are 0 / <<>>.
DataFrame(bytes)    == [typ |-> "data", cmd |-> 0,   opt |-> 0,   payload |-> bytes]
NegFrame(cmd, opt)  == [typ |-> "neg",  cmd |-> cmd, opt |-> opt, payload |-> <<>>]
SbFrame(opt, bytes) == [typ |-> "sb",   cmd |-> 0,   opt |-> opt, payload |-> bytes]
GaFrame             == [typ |-> "ga",   cmd |-> 0,   opt |-> 0,   payload |-> <<>>]

\* The parser object: __init__
FreshParser == [state |-> "data", pend_cmd |-> 0, sb_opt |-> -1, sb_buf |-> <<>>]

(***************************************************************************)
(* feed, first loop: one byte of the chunk.  p is the parser's fields,     *)
(* out the list of frames built so far in this call.                       *)
(***************************************************************************)
StepByte(p, out, byte) ==
    CASE p.state = "data" ->
            IF byte = IAC THEN <<[p EXCEPT !.state = "iac"], out>>
            ELSE IF byte = NUL THEN <<p, out>>
            ELSE <<p, Append(out, DataFrame(<<byte>>))>>
      [] p.state = "iac" ->
            IF byte = IAC
            THEN <<[p EXCEPT !.state = "data"], Append(out, DataFrame(<<IAC>>))>>
            ELSE IF byte = GA
            THEN <<[p EXCEPT !.state = "data"], Append(out, GaFrame)>>
            ELSE IF byte = SB
            THEN <<[p EXCEPT !.state = "sb_opt"], out>>
            ELSE IF byte \in {WILL, WONT, DO, DONT}
            THEN <<[p EXCEPT !.pend_cmd = byte, !.state = "iac_cmd_option"], out>>
            ELSE <<[p EXCEPT !.state = "data"], out>>
      [] p.state = "iac_cmd_option" ->
            <<[p EXCEPT !.pend_cmd = 0, !.state = "data"],
              Append(out, NegFrame(p.pend_cmd, byte))>>
      [] p.state = "sb_opt" ->
            <<[p EXCEPT !.sb_opt = byte, !.sb_buf = <<>>, !.state = "sb_data"], out>>
      [] p.state = "sb_data" ->
            IF byte = IAC THEN <<[p EXCEPT !.state = "sb_data_iac"], out>>
            ELSE IF Len(p.sb_buf) + 1 > MAX_SB_LEN
            THEN <<[p EXCEPT !.sb_buf = <<>>, !.state = "data"], out>>
            ELSE <<[p EXCEPT !.sb_buf = Append(p.sb_buf, byte)], out>>
      [] p.state = "sb_data_iac" ->
            IF byte = SE
            THEN <<[p EXCEPT !.state = "data"], Append(out, SbFrame(p.sb_opt, p.sb_buf))>>
            ELSE IF byte = IAC
            THEN <<[p EXCEPT !.sb_buf = Append(p.sb_buf, IAC), !.state = "sb_data"], out>>
            ELSE <<[p EXCEPT !.sb_buf = <<>>, !.state = "data"], out>>

RECURSIVE ScanChunk(_, _, _)
ScanChunk(p, out, chunk) ==
    IF chunk = <<>> THEN <<p, out>>
    ELSE LET r == StepByte(p, out, Head(chunk))
         IN  ScanChunk(r[1], r[2], Tail(chunk))

(***************************************************************************)
(* feed, second loop: merge consecutive data frames.                       *)
(***************************************************************************)
RECURSIVE MergeFrom(_, _, _)
MergeFrom(out, buffer, merged) ==
    IF out = <<>>
    THEN IF buffer # <<>> THEN Append(merged, DataFrame(buffer)) ELSE merged
    ELSE LET frame == Head(out) IN
         IF frame.typ = "data"
         THEN MergeFrom(Tail(out), buffer \o frame.payload, merged)
         ELSE MergeFrom(Tail(out), <<>>,
                        Append(IF buffer # <<>>
                               THEN Append(merged, DataFrame(buffer))
                               ELSE merged,
                               frame))

MergeData(out) == MergeFrom(out, <<>>, <<>>)

(***************************************************************************)
(* data_bytes.replace(b'\r\n', b'\n').replace(b'\r', b'\n')                *)
(***************************************************************************)
RECURSIVE ReplaceCRLF(_)
ReplaceCRLF(b) ==
    IF b = <<>> THEN <<>>
    ELSE IF Len(b) >= 2 /\ b[1] = CR /\ b[2] = LF
    THEN <<LF>> \o ReplaceCRLF(Tail(Tail(b)))
    ELSE <<Head(b)>> \o ReplaceCRLF(Tail(b))

ReplaceCR(b) == [i \in 1..Len(b) |-> IF b[i] = CR THEN LF ELSE b[i]]

NormalizeNewlines_crlf_only(b) == ReplaceCRLF(b)

NormalizeNewlines(b) == ReplaceCR(ReplaceCRLF(b))

(***************************************************************************)
(* payload.decode('utf-8'): <<TRUE, code points>> or <<FALSE>> when the    *)
(* bytes are not UTF-8 (UnicodeDecodeError).                               *)
(***************************************************************************)
IsCont(b) == b >= 128 /\ b <= 191

RECURSIVE Utf8Decode(_)
Utf8Decode(b) ==
    IF b = <<>> THEN <<TRUE, <<>>>>
    ELSE LET c == b[1]
             n == IF c < 128 THEN 1
                  ELSE IF c >= 194 /\ c <= 223 THEN 2
                  ELSE IF c >= 224 /\ c <= 239 THEN 3
                  ELSE IF c >= 240 /\ c <= 244 THEN 4
                  ELSE 0
         IN  IF n = 0 \/ Len(b) < n THEN <<FALSE>>
             ELSE IF \E i \in 2..n : ~IsCont(b[i]) THEN <<FALSE>>
             ELSE IF n = 3 /\ c = 224 /\ b[2] < 160 THEN <<FALSE>>
             ELSE IF n = 3 /\ c = 237 /\ b[2] > 159 THEN <<FALSE>>
             ELSE IF n = 4 /\ c = 240 /\ b[2] < 144 THEN <<FALSE>>
             ELSE IF n = 4 /\ c = 244 /\ b[2] > 143 THEN <<FALSE>>
             ELSE LET cp == CASE n = 1 -> c
                              [] n = 2 -> (c - 192) * 64 + (b[2] - 128)
                              [] n = 3 -> (c - 224) * 4096 + (b[2] - 128) * 64
                                          + (b[3] - 128)
                              [] n = 4 -> (c - 240) * 262144 + (b[2] - 128) * 4096
                                          + (b[3] - 128) * 64 + (b[4] - 128)
                      rest == Utf8Decode(SubSeq(b, n + 1, Len(b)))
                  IN  IF rest[1] THEN <<TRUE, <<cp>> \o rest[2]>> ELSE <<FALSE>>

SPACE == 32

\* text.split(' ', 1): <<msg>> or <<msg, remainder>>
SplitFirstSpace(text) ==
    IF \E i \in 1..Len(text) : text[i] = SPACE
    THEN LET i == CHOOSE i \in 1..Len(text) :
                      text[i] = SPACE /\ \A j \in 1..(i - 1) : text[j] # SPACE
         IN  <<SubSeq(text, 1, i - 1), SubSeq(text, i + 1, Len(text))>>
    ELSE <<text>>

\* Callback invocations.  raw is <<>> for None and <<s>> for the string s.
OnData(bytes)     == [cb |-> "on_data", cmd |-> 0,   opt |-> 0,   text |-> bytes, raw |-> <<>>]
OnNeg(cmd, opt)   == [cb |-> "on_neg",  cmd |-> cmd, opt |-> opt, text |-> <<>>,  raw |-> <<>>]
OnGa              == [cb |-> "on_ga",   cmd |-> 0,   opt |-> 0,   text |-> <<>>,  raw |-> <<>>]
OnGmcp(msg, raw)  == [cb |-> "on_gmcp", cmd |-> 0,   opt |-> 0,   text |-> msg,   raw |-> raw]

(***************************************************************************)
(* feed, third loop: normalize newlines and dispatch callbacks.            *)
(* Returns <<final, callback invocations>>.                                *)
(***************************************************************************)
GmcpCalls(payload) ==
    LET d == Utf8Decode(payload) IN
    IF ~d[1] THEN <<>>
    ELSE LET parts == SplitFirstSpace(d[2])
         IN  <<OnGmcp(parts[1], IF Len(parts) > 1 THEN <<parts[2]>> ELSE <<>>)>>

RECURSIVE Dispatch(_, _, _)
Dispatch(merged, final, cbs) ==
    IF merged = <<>> THEN <<final, cbs>>
    ELSE LET frame == Head(merged) IN
         CASE frame.typ = "data" ->
                LET cleaned == NormalizeNewlines(frame.payload)
                IN  Dispatch(Tail(merged), Append(final, DataFrame(cleaned)),
                             Append(cbs, OnData(cleaned)))
           [] frame.typ = "neg" ->
                Dispatch(Tail(merged), Append(final, frame),
                         Append(cbs, OnNeg(frame.cmd, frame.opt)))
           [] frame.typ = "sb" ->
                Dispatch(Tail(merged), Append(final, frame),
                         IF frame.opt = ATCP2
                         THEN cbs \o GmcpCalls(frame.payload)
                         ELSE cbs)
           [] frame.typ = "ga" ->
                Dispatch(Tail(merged), Append(final, frame), Append(cbs, OnGa))

(***************************************************************************)
(* TelnetParser.feed as a function: parser fields and chunk to             *)
(* <<parser fields afterwards, returned frames, callback invocations>>.    *)
(***************************************************************************)
FeedResult(p, chunk) ==
    LET scanned == ScanChunk(p, <<>>, chunk)
        d       == Dispatch(MergeData(scanned[2]), <<>>, <<>>)
    IN  <<scanned[1], d[1], d[2]>>

(***************************************************************************)
(* The byte streams the model feeds: every concatenation of at most        *)
(* MaxTokens telnet tokens.  Every single byte of TelnetBytes is a token,  *)
(* so every byte string over TelnetBytes of length <= MaxTokens is an      *)
(* input; the longer tokens let complete commands fit the bound.           *)
(***************************************************************************)
MaxTokens == 3

LetterA == 65

TelnetBytes == {IAC, SE, SB, GA, WILL, ATCP2, NUL, CR, LF, LetterA, SPACE}

TelnetTokens ==
    {<<b>> : b \in TelnetBytes}
    \cup {<<IAC, IAC>>, <<IAC, GA>>, <<IAC, WILL, ECHO>>, <<IAC, SB, ATCP2>>,
          <<IAC, SE>>, <<CR, LF>>, <<LetterA, SPACE, LetterA>>}

TelnetInputs == {Flatten(ts) : ts \in SeqsUpTo(TelnetTokens, MaxTokens)}

InitTelnet ==
    /\ state = FreshParser.state
    /\ pend_cmd = FreshParser.pend_cmd
    /\ sb_opt = FreshParser.sb_opt
    /\ sb_buf = FreshParser.sb_buf
    /\ input \in TelnetInputs
    /\ pos = 0
    /\ returned = <<>>
    /\ calls = <<>>

Parser == [state |-> state, pend_cmd |-> pend_cmd, sb_opt |-> sb_opt, sb_buf |-> sb_buf]

\* One readyRead: the next k bytes of the stream arrive and are fed.
Feed(k) ==
    /\ pos + k <= Len(input)
    /\ LET r == FeedResult(Parser, SubSeq(input, pos + 1, pos + k)) IN
       /\ state' = r[1].state
       /\ pend_cmd' = r[1].pend_cmd
       /\ sb_opt' = r[1].sb_opt
       /\ sb_buf' = r[1].sb_buf
       /\ returned' = Append(returned, r[2])
       /\ calls' = calls \o r[3]
    /\ pos' = pos + k
    /\ UNCHANGED input

\* The stream is fed in at most two chunks.
MaxFeeds == 2

FeedChunk == \E k \in 1..Len(input) : Len(returned) < MaxFeeds /\ Feed(k)

IdleTelnet ==
    /\ state = FreshParser.state
    /\ pend_cmd = FreshParser.pend_cmd
    /\ sb_opt = FreshParser.sb_opt
    /\ sb_buf = FreshParser.sb_buf
    /\ input = <<>>
    /\ pos = 0
    /\ returned = <<>>
    /\ calls = <<>>

(***************************************************************************)
(* Rules: texts, patterns and actions.                                     *)
(*                                                                         *)
(* A text is a sequence of letters.  A pattern is a regex made of literal  *)
(* letters, or the regex "(" which re.compile rejects (re.error).  A       *)
(* rule's action is opaque user code; what matters of it here is what it   *)
(* does when called: return, raise, or (aliases) send a text.              *)
(***************************************************************************)
Letters == {"x", "y"}

BadPattern == <<"(">>

Compiles(regex) == \A i \in 1..Len(regex) : regex[i] \in Letters

\* pattern.search(text): unanchored
Search(regex, text) ==
    \E i \in 1..(Len(text) + 1) :
        /\ i + Len(regex) - 1 <= Len(text)
        /\ SubSeq(text, i, i + Len(regex) - 1) = regex

\* pattern.match(text): anchored at position 0
Match(regex, text) ==
    /\ Len(regex) <= Len(text)
    /\ SubSeq(text, 1, Len(regex)) = regex

\* list.sort(): ascending by key, stable (equal keys keep their order).
\* key[i] is the sort key of s[i].
StableSortByKey(s, key) ==
    LET n == Len(s)
        rank(i) == Cardinality({j \in 1..n :
                       key[j] < key[i] \/ (key[j] = key[i] /\ j < i)}) + 1
    IN  [q \in 1..n |-> s[CHOOSE i \in 1..n : rank(i) = q]]

\* What a call left behind.  outcome is "none" (no call yet), "returned" or
\* "raised"; ret is the value returned; invoked lists the rule actions that
\* were called, in order; sent lists the texts handed to connection.send.
NoCall == [op |-> "none", text |-> <<>>, outcome |-> "none", ret |-> FALSE,
           invoked |-> <<>>, sent |-> <<>>]

Returned(op, text, ret, invoked, sent) ==
    [op |-> op, text |-> text, outcome |-> "returned", ret |-> ret,
     invoked |-> invoked, sent |-> sent]

Raised(op, text, invoked, sent) ==
    [op |-> op, text |-> text, outcome |-> "raised", ret |-> FALSE,
     invoked |-> invoked, sent |-> sent]

(***************************************************************************)
(* Trigger (core/triggers/trigger.py)                                      *)
(***************************************************************************)
Trigger(priority, name, regex, action, enabled, gag) ==
    [priority |-> priority, name |-> name, regex |-> regex, action |-> action,
     enabled |-> enabled, gag |-> gag]

\* Trigger.__lt__(self, other), as the sort key it orders by
TriggerSortKey(t) == t.priority

SortTriggers(ts) == StableSortByKey(ts, [i \in 1..Len(ts) |-> TriggerSortKey(ts[i])])

(***************************************************************************)
(* TriggerManager                                                          *)
(***************************************************************************)
WithoutName(ts, name) == SelectSeq(ts, LAMBDA t : t.name # name)

\* add_trigger: the new value of _triggers (the regex compiles)
AddedTrigger(ts, trig) == SortTriggers(Append(WithoutName(ts, trig.name), trig))

\* add_trigger(name, regex, action, enabled, priority, gag)
add_trigger(name, regex, action, enabled, priority, gag) ==
    /\ IF Compiles(regex)
       THEN /\ _triggers' = AddedTrigger(_triggers,
                                Trigger(priority, name, regex, action, enabled, gag))
            /\ regOrder' = Append(SelectSeq(regOrder, LAMBDA n : n # name), name)
            /\ lastCall' = Returned("add_trigger", <<>>, FALSE, <<>>, <<>>)
       ELSE /\ UNCHANGED <<_triggers, regOrder>>
            /\ lastCall' = Raised("add_trigger", <<>>, <<>>, <<>>)
    /\ UNCHANGED <<db, _aliases>>

\* remove_trigger(name)
remove_trigger(name) ==
    /\ _triggers' = WithoutName(_triggers, name)
    /\ regOrder' = SelectSeq(regOrder, LAMBDA n : n # name)
    /\ lastCall' = Returned("remove_trigger", <<>>, FALSE, <<>>, <<>>)
    /\ UNCHANGED <<db, _aliases>>

\* check_triggers(text): what the call does, as a value
RECURSIVE CheckTriggersFrom(_, _)
CheckTriggersFrom(ts, text) ==
    IF ts = <<>> THEN Returned("check_triggers", text, FALSE, <<>>, <<>>)
    ELSE LET trig == Head(ts) IN
         IF ~trig.enabled THEN CheckTriggersFrom(Tail(ts), text)
         ELSE IF ~Search(trig.regex, text) THEN CheckTriggersFrom(Tail(ts), text)
         ELSE IF trig.action = "raise"
              THEN Raised("check_triggers", text, <<trig.name>>, <<>>)
              ELSE Returned("check_triggers", text, trig.gag, <<trig.name>>, <<>>)

check_triggers(text) ==
    /\ lastCall' = CheckTriggersFrom(_triggers, text)
    /\ UNCHANGED <<db, _triggers, _aliases, regOrder>>

(***************************************************************************)
(* AliasManager (core/alias_manager.py) and App.send_to_mud (core/app.py)  *)
(***************************************************************************)
\* one entry of _aliases: (priority, compiled, action_fn)
Alias(priority, regex, action) ==
    [priority |-> priority, regex |-> regex, action |-> action]

\* What an alias action does when called: ctx.send(text), echo only, or raise
SendAction(text) == [kind |-> "send", text |-> text]
EchoAction       == [kind |-> "echo", text |-> <<>>]
RaiseAction      == [kind |-> "raise", text |-> <<>>]

\* self._aliases.sort(key=lambda x: -x[0])
AliasSortKey(al) == 0 - al.priority

SortAliases(als) == StableSortByKey(als, [i \in 1..Len(als) |-> AliasSortKey(als[i])])

\* register_alias: the new value of _aliases (the regex compiles)
RegisteredAlias(als, al) == SortAliases(Append(als, al))

\* register_alias(pattern, action_fn, priority)
register_alias(pattern, action_fn, priority) ==
    /\ IF Compiles(pattern)
       THEN /\ _aliases' = RegisteredAlias(_aliases, Alias(priority, pattern, action_fn))
            /\ lastCall' = Returned("register_alias", <<>>, FALSE, <<>>, <<>>)
       ELSE /\ UNCHANGED _aliases
            /\ lastCall' = Raised("register_alias", <<>>, <<>>, <<>>)
    /\ UNCHANGED <<db, _triggers, regOrder>>

\* The deepest nesting of send_to_mud calls the interpreter allows before it
\* raises RecursionError.
RecursionLimit == 8

\* process(line) taking the last alias whose pattern matches
FirstAlias_last(als, line) ==
    IF \E i \in 1..Len(als) : Match(als[i].regex, line)
    THEN CHOOSE i \in 1..Len(als) :
             /\ Match(als[i].regex, line)
             /\ \A j \in (i + 1)..Len(als) : ~Match(als[j].regex, line)
    ELSE 0

\* process(line): the index of the first alias whose pattern matches, 0 if none
FirstAlias(als, line) ==
    IF \E i \in 1..Len(als) : Match(als[i].regex, line)
    THEN CHOOSE i \in 1..Len(als) :
             /\ Match(als[i].regex, line)
             /\ \A j \in 1..(i - 1) : ~Match(als[j].regex, line)
    ELSE 0

(***************************************************************************)
(* App.send_to_mud(text) with AliasManager.process and Context.send:       *)
(* send_to_mud calls process; process calls the first matching alias's     *)
(* action; an action that sends calls Context.send, which calls            *)
(* send_to_mud again.  depth is the number of send_to_mud calls on the     *)
(* stack, invoked and sent what has been done so far.                      *)
(***************************************************************************)
RECURSIVE SendToMudAt(_, _, _, _, _, _)
SendToMudAt(als, open, text, depth, invoked, sent) ==
    IF depth > RecursionLimit THEN Raised("send_to_mud", text, invoked, sent)
    ELSE IF ~open THEN Returned("send_to_mud", text, FALSE, invoked, sent)
    ELSE LET i == FirstAlias(als, text) IN
         IF i = 0
         THEN Returned("send_to_mud", text, FALSE, invoked, Append(sent, text))
         ELSE LET fn == als[i].action IN
              CASE fn.kind = "raise" ->
                     Raised("send_to_mud", text, Append(invoked, i), sent)
                [] fn.kind = "echo" ->
                     Returned("send_to_mud", text, TRUE, Append(invoked, i), sent)
                [] fn.kind = "send" ->
                     LET inner == SendToMudAt(als, open, fn.text, depth + 1,
                                              Append(invoked, i), sent)
                     IN  [inner EXCEPT !.text = text,
                                       !.ret = (inner.outcome = "returned")]

send_to_mud(text, open) ==
    /\ lastCall' = SendToMudAt(_aliases, open, text, 1, <<>>, <<>>)
    /\ UNCHANGED <<db, _triggers, _aliases, regOrder>>

(***************************************************************************)
(* Bulk load from the Script table.                                        *)
(***************************************************************************)
\* The attributes the Script entity declares.
Script(name, category, pattern, code, enabled, priority) ==
    [name |-> name, category |-> category, pattern |-> pattern, code |-> code,
     enabled |-> enabled, priority |-> priority]

\* rec.<attr>: an AttributeError unless the entity declares the attribute
Declares(rec, attr) == attr \in DOMAIN rec

\* Script.select(lambda s: s.category == category and s.enabled)
SelectEnabled(table, category) ==
    SelectSeq(table, LAMBDA rec : rec.category = category /\ rec.enabled)

\* TriggerManager._load_all_from_db over the selected records: the loop stops
\* at the first record whose compile_and_register raises, on reading rec.gag
\* (AttributeError) or in add_trigger's re.compile (re.error).
RECURSIVE LoadTriggers(_, _, _)
LoadTriggers(recs, ts, order) ==
    IF recs = <<>> THEN [triggers |-> ts, order |-> order, raised |-> FALSE]
    ELSE LET rec == Head(recs) IN
         IF ~Declares(rec, "gag")
         THEN [triggers |-> ts, order |-> order, raised |-> TRUE]
         ELSE IF ~Compiles(rec.pattern)
         THEN [triggers |-> ts, order |-> order, raised |-> TRUE]
         ELSE LoadTriggers(Tail(recs),
                  AddedTrigger(ts, Trigger(rec.priority, rec.name, rec.pattern,
                                           rec.code, rec.enabled, rec.gag)),
                  Append(SelectSeq(order, LAMBDA n : n # rec.name), rec.name))

\* TriggerManager.reload(): clear_all, then _load_all_from_db
TriggerReload ==
    LET r == LoadTriggers(SelectEnabled(db, "trigger"), <<>>, <<>>) IN
    /\ _triggers' = r.triggers
    /\ regOrder' = r.order
    /\ lastCall' = IF r.raised THEN Raised("TriggerManager.reload", <<>>, <<>>, <<>>)
                   ELSE Returned("TriggerManager.reload", <<>>, FALSE, <<>>, <<>>)
    /\ UNCHANGED <<db, _aliases>>

\* AliasManager._load_all_from_db over the selected records: a record whose
\* pattern does not compile is skipped.
RECURSIVE LoadAliases(_, _)
LoadAliases(recs, als) ==
    IF recs = <<>> THEN als
    ELSE LET rec == Head(recs) IN
         IF ~Compiles(rec.pattern) THEN LoadAliases(Tail(recs), als)
         ELSE LoadAliases(Tail(recs),
                  RegisteredAlias(als, Alias(rec.priority, rec.pattern, rec.code)))

\* AliasManager.reload(): clear_all, then _load_all_from_db
AliasReload ==
    /\ _aliases' = LoadAliases(SelectEnabled(db, "alias"), <<>>)
    /\ lastCall' = Returned("AliasManager.reload", <<>>, FALSE, <<>>, <<>>)
    /\ UNCHANGED <<db, _triggers, regOrder>>

IdleRules ==
    /\ db = <<>>
    /\ _triggers = <<>>
    /\ _aliases = <<>>
    /\ regOrder = <<>>
    /\ lastCall = NoCall

(***************************************************************************)
(* Timers.  A QTimer is [name, interval, active]: the name of the script   *)
(* whose code its timeout runs, its interval in ms, and whether it is      *)
(* running.  The managers' dicts map a name to the QTimer's index in       *)
(* qtimers.                                                                *)
(***************************************************************************)
QTimer(name, ms) == [name |-> name, interval |-> ms, active |-> TRUE]

\* dict.pop(name, None) and dict[name] = id, on a function name -> index
Popped(dict, name) == [n \in DOMAIN dict \ {name} |-> dict[n]]

Stored(dict, name, id) ==
    [n \in DOMAIN dict \cup {name} |-> IF n = name THEN id ELSE dict[n]]

NoTimers == [n \in {} |-> 0]

\* timer.stop() on the QTimers of the given indices
Stopped(qs, ids) == [i \in 1..Len(qs) |-> IF i \in ids THEN [qs[i] EXCEPT !.active = FALSE]
                                          ELSE qs[i]]

\* TimerManager._unregister_timer(name), on <<_timers, qtimers>>
_unregister_timer(dict, qs, name) ==
    IF name \in DOMAIN dict
    THEN <<Popped(dict, name), Stopped(qs, {dict[name]})>>
    ELSE <<dict, qs>>

\* TimerManager._register_timer(name, ms, code), on <<_timers, qtimers>>
_register_timer(dict, qs, name, ms) ==
    LET old == _unregister_timer(dict, qs, name)
        qs2 == Append(old[2], QTimer(name, ms))
    IN  <<Stored(old[1], name, Len(qs2)), qs2>>

\* TimerManager.clear_all(), on <<_timers, qtimers>>
TimerClearAll(dict, qs) == <<NoTimers, Stopped(qs, {dict[n] : n \in DOMAIN dict})>>

\* ScriptManager._start_timer(name, code_obj, interval): interval in seconds
_start_timer(dict, qs, name, interval) ==
    LET qs2 == Append(qs, QTimer(name, interval * 1000))
    IN  <<Stored(dict, name, Len(qs2)), qs2>>

\* self.find(name): the index of the timer row of this name, 0 if none
FindRow(table, category, name) ==
    IF \E i \in 1..Len(table) : table[i].name = name /\ table[i].category = category
    THEN CHOOSE i \in 1..Len(table) :
             table[i].name = name /\ table[i].category = category
    ELSE 0

WithoutRow(table, i) == [k \in 1..(Len(table) - 1) |-> IF k < i THEN table[k] ELSE table[k + 1]]

\* TimerManager._load_all_from_db over the selected records, on
\* <<_timers, qtimers, raised>>: reading rec.interval raises AttributeError
\* when the entity declares no interval.
RECURSIVE LoadTimers(_, _, _)
LoadTimers(recs, dict, qs) ==
    IF recs = <<>> THEN <<dict, qs, FALSE>>
    ELSE LET rec == Head(recs) IN
         IF ~Declares(rec, "interval") THEN <<dict, qs, TRUE>>
         ELSE IF rec.interval > 0
              THEN LET r == _register_timer(dict, qs, rec.name, rec.interval)
                   IN  LoadTimers(Tail(recs), r[1], r[2])
              ELSE LoadTimers(Tail(recs), dict, qs)

TimerCall(op, name, raised, ret) ==
    IF raised THEN Raised(op, <<name>>, <<>>, <<>>)
    ELSE Returned(op, <<name>>, ret, <<>>, <<>>)

\* TimerManager.reload()
TimerReload ==
    LET c == TimerClearAll(_timers, qtimers)
        r == LoadTimers(SelectEnabled(db, "timer"), c[1], c[2])
    IN  /\ _timers' = r[1]
        /\ qtimers' = r[2]
        /\ lastCall' = TimerCall("TimerManager.reload", "", r[3], FALSE)
        /\ UNCHANGED <<db, _triggers, _aliases, regOrder, timers>>

\* TimerManager.create(name, ms, code, priority, enabled): Script(...,
\* interval=ms, ...) is a TypeError when the entity declares no interval,
\* and db_session rolls back.
TimerCreate(name, ms, code, priority, enabled) ==
    LET rec == Script(name, "timer", <<>>, code, enabled, priority) IN
    IF ~Declares(rec, "interval")
    THEN /\ lastCall' = TimerCall("TimerManager.create", name, TRUE, FALSE)
         /\ UNCHANGED <<db, _triggers, _aliases, regOrder, timerVars>>
    ELSE LET r == IF enabled /\ ms > 0 THEN _register_timer(_timers, qtimers, name, ms)
                  ELSE <<_timers, qtimers>>
         IN  /\ db' = Append(db, rec)
             /\ _timers' = r[1]
             /\ qtimers' = r[2]
             /\ lastCall' = TimerCall("TimerManager.create", name, FALSE, FALSE)
             /\ UNCHANGED <<_triggers, _aliases, regOrder, timers>>

\* TimerManager.update(old_name, name, ms, code, priority, enabled):
\* rec.interval = ms is an AttributeError when the entity declares no
\* interval, and db_session rolls back.
TimerUpdate(old_name, name, ms, code, priority, enabled) ==
    LET i == FindRow(db, "timer", old_name) IN
    IF i = 0
    THEN /\ lastCall' = TimerCall("TimerManager.update", old_name, FALSE, FALSE)
         /\ UNCHANGED <<db, _triggers, _aliases, regOrder, timerVars>>
    ELSE IF ~Declares(db[i], "interval")
    THEN /\ lastCall' = TimerCall("TimerManager.update", old_name, TRUE, FALSE)
         /\ UNCHANGED <<db, _triggers, _aliases, regOrder, timerVars>>
    ELSE LET u == _unregister_timer(_timers, qtimers, old_name)
             r == IF enabled /\ ms > 0 THEN _register_timer(u[1], u[2], name, ms) ELSE u
         IN  /\ db' = [db EXCEPT ![i] = [@ EXCEPT !.name = name, !.interval = ms,
                                                  !.code = code, !.priority = priority,
                                                  !.enabled = enabled]]
             /\ _timers' = r[1]
             /\ qtimers' = r[2]
             /\ lastCall' = TimerCall("TimerManager.update", old_name, FALSE, FALSE)
             /\ UNCHANGED <<_triggers, _aliases, regOrder, timers>>

\* TimerManager.delete(name)
TimerDelete(name) ==
    LET i == FindRow(db, "timer", name)
        u == _unregister_timer(_timers, qtimers, name)
    IN  /\ db' = IF i = 0 THEN db ELSE WithoutRow(db, i)
        /\ _timers' = u[1]
        /\ qtimers' = u[2]
        /\ lastCall' = TimerCall("TimerManager.delete", name, FALSE, FALSE)
        /\ UNCHANGED <<_triggers, _aliases, regOrder, timers>>

\* TimerManager.toggle(name): enabling reads rec.interval
TimerToggle(name) ==
    LET i == FindRow(db, "timer", name) IN
    IF i = 0
    THEN /\ lastCall' = TimerCall("TimerManager.toggle", name, FALSE, FALSE)
         /\ UNCHANGED <<db, _triggers, _aliases, regOrder, timerVars>>
    ELSE IF ~db[i].enabled /\ ~Declares(db[i], "interval")
    THEN /\ lastCall' = TimerCall("TimerManager.toggle", name, TRUE, FALSE)
         /\ UNCHANGED <<db, _triggers, _aliases, regOrder, timerVars>>
    ELSE LET r == IF ~db[i].enabled /\ db[i].interval > 0
                  THEN _register_timer(_timers, qtimers, name, db[i].interval)
                  ELSE _unregister_timer(_timers, qtimers, name)
         IN  /\ db' = [db EXCEPT ![i].enabled = ~@]
             /\ _timers' = r[1]
             /\ qtimers' = r[2]
             /\ lastCall' = TimerCall("TimerManager.toggle", name, FALSE, ~db[i].enabled)
             /\ UNCHANGED <<_triggers, _aliases, regOrder, timers>>

(***************************************************************************)
(* ScriptManager (core/script_manager.py)                                  *)
(***************************************************************************)
\* float(s) for a string of digits; <<FALSE>> is ValueError
DigitValue == ("0" :> 0) @@ ("1" :> 1) @@ ("5" :> 5)

RECURSIVE Decimal(_, _)
Decimal(chars, acc) ==
    IF chars = <<>> THEN acc
    ELSE Decimal(Tail(chars), acc * 10 + DigitValue[Head(chars)])

ParseFloat(chars) ==
    IF chars # <<>> /\ \A i \in 1..Len(chars) : chars[i] \in DOMAIN DigitValue
    THEN <<TRUE, Decimal(chars, 0)>>
    ELSE <<FALSE>>

\* order_by(Script.category, Script.priority), for the categories of the model
CategoryRank(category) ==
    CASE category = "alias" -> 1
      [] category = "timer" -> 2
      [] category = "trigger" -> 3

ByCategoryAndPriority(table) ==
    LET n == Len(table)
        before(i, j) ==
            \/ CategoryRank(table[i].category) < CategoryRank(table[j].category)
            \/ /\ table[i].category = table[j].category
               /\ \/ table[i].priority < table[j].priority
                  \/ table[i].priority = table[j].priority /\ i < j
        rank(i) == Cardinality({j \in 1..n : before(j, i)}) + 1
    IN  [q \in 1..n |-> table[CHOOSE i \in 1..n : rank(i) = q]]

\* The loop of load_all_scripts over the ordered rows.  st holds the
\* working sets; the loop ends at the first exception (re.error from
\* add_trigger or register_alias, ValueError from float).
RECURSIVE ScriptsLoaded(_, _)
ScriptsLoaded(recs, st) ==
    IF recs = <<>> THEN st
    ELSE LET rec == Head(recs) IN
         IF ~rec.enabled THEN ScriptsLoaded(Tail(recs), st)
         ELSE CASE rec.category = "trigger" ->
                     IF ~Compiles(rec.pattern) THEN [st EXCEPT !.raised = TRUE]
                     ELSE ScriptsLoaded(Tail(recs),
                            [st EXCEPT
                               !.triggers = AddedTrigger(@,
                                   Trigger(rec.priority, rec.name, rec.pattern,
                                           rec.code, TRUE, FALSE)),
                               !.order = Append(SelectSeq(@, LAMBDA n : n # rec.name),
                                                rec.name)])
                [] rec.category = "timer" ->
                     LET interval == IF rec.pattern = <<>> THEN <<TRUE, 0>>
                                     ELSE ParseFloat(rec.pattern)
                     IN  IF ~interval[1] THEN [st EXCEPT !.raised = TRUE]
                         ELSE LET r == _start_timer(st.timers, st.qtimers, rec.name,
                                                    interval[2])
                              IN  ScriptsLoaded(Tail(recs),
                                     [st EXCEPT !.timers = r[1], !.qtimers = r[2]])
                [] rec.category = "alias" ->
                     IF ~Compiles(rec.pattern) THEN [st EXCEPT !.raised = TRUE]
                     ELSE ScriptsLoaded(Tail(recs),
                            [st EXCEPT !.aliases =
                                RegisteredAlias(@, Alias(0, rec.pattern, rec.code))])

\* ScriptManager.load_all_scripts(): the triggers are cleared first, the
\* aliases and the timers are not
load_all_scripts ==
    LET st == ScriptsLoaded(ByCategoryAndPriority(db),
                  [triggers |-> <<>>, order |-> <<>>, aliases |-> _aliases,
                   timers |-> timers, qtimers |-> qtimers, raised |-> FALSE])
    IN  /\ _triggers' = st.triggers
        /\ regOrder' = st.order
        /\ _aliases' = st.aliases
        /\ timers' = st.timers
        /\ qtimers' = st.qtimers
        /\ lastCall' = TimerCall("load_all_scripts", "", st.raised, FALSE)
        /\ UNCHANGED <<db, _timers>>

\* core/managers/script_manager.py, the loop of load_all_scripts: a trigger
\* row goes through compile_and_register, an alias row through
\* _register_alias, which skips a pattern that does not compile.
RECURSIVE ManagedScriptsLoaded(_, _)
ManagedScriptsLoaded(recs, st) ==
    IF recs = <<>> THEN st
    ELSE LET rec == Head(recs) IN
         IF ~rec.enabled THEN ManagedScriptsLoaded(Tail(recs), st)
         ELSE CASE rec.category = "trigger" ->
                     LET r == LoadTriggers(<<rec>>, st.triggers, st.order) IN
                     IF r.raised THEN [st EXCEPT !.raised = TRUE]
                     ELSE ManagedScriptsLoaded(Tail(recs),
                            [st EXCEPT !.triggers = r.triggers, !.order = r.order])
                [] rec.category = "alias" ->
                     ManagedScriptsLoaded(Tail(recs),
                        [st EXCEPT !.aliases = LoadAliases(<<rec>>, @)])
                [] OTHER -> ManagedScriptsLoaded(Tail(recs), st)

\* core/managers/script_manager.py, ScriptManager.load_all_scripts():
\* clear the triggers and the aliases, reload the timers, then the loop
ManagedLoadAllScripts ==
    LET c  == TimerClearAll(_timers, qtimers)
        t  == LoadTimers(SelectEnabled(db, "timer"), c[1], c[2])
        st == IF t[3]
              THEN [triggers |-> <<>>, order |-> <<>>, aliases |-> <<>>, raised |-> TRUE]
              ELSE ManagedScriptsLoaded(ByCategoryAndPriority(db),
                       [triggers |-> <<>>, order |-> <<>>, aliases |-> <<>>,
                        raised |-> FALSE])
    IN  /\ _triggers' = st.triggers
        /\ regOrder' = st.order
        /\ _aliases' = st.aliases
        /\ _timers' = t[1]
        /\ qtimers' = t[2]
        /\ lastCall' = TimerCall("managers.load_all_scripts", "", st.raised, FALSE)
        /\ UNCHANGED <<db, timers>>

\* ScriptManager.stop_timer(name)
stop_timer(name) ==
    /\ timers' = Popped(timers, name)
    /\ qtimers' = IF name \in DOMAIN timers THEN Stopped(qtimers, {timers[name]})
                  ELSE qtimers
    /\ lastCall' = TimerCall("stop_timer", name, FALSE, FALSE)
    /\ UNCHANGED <<db, _triggers, _aliases, regOrder, _timers>>

\* A running QTimer times out and its callback runs the script's code.
timeout(i) ==
    /\ qtimers[i].active
    /\ lastCall' = Returned("timeout", <<qtimers[i].name>>, FALSE,
                            <<qtimers[i].name>>, <<>>)
    /\ UNCHANGED <<db, _triggers, _aliases, regOrder, timerVars>>

IdleTimers ==
    /\ _timers = NoTimers
    /\ timers = NoTimers
    /\ qtimers = <<>>

(***************************************************************************)
(* Context.exec_script (core/context.py).  A script's code is one of a few *)
(* statements on the name gmcp of its sandbox.                             *)
(***************************************************************************)
NoData == [k \in {} |-> 0]

ReadCode(key) == [kind |-> "get", key |-> key, value |-> 0]

StoreCode(key, value) == [kind |-> "setitem", key |-> key, value |-> value]

DelCode(key) == [kind |-> "delitem", key |-> key, value |-> 0]

ClearCode == [kind |-> "clear", key |-> "", value |-> 0]

RebindCode == [kind |-> "rebind", key |-> "", value |-> 0]

\* exec(code_obj, {}, sandbox): the sandbox after the code ran, and whether
\* the code raised.  gmcp.get(key) reads; gmcp[key] = value, del gmcp[key]
\* and gmcp.clear() change the dict the name is bound to; gmcp = {} binds
\* the name to a new dict.
Exec(code, sandbox) ==
    CASE code.kind = "get" -> <<sandbox, FALSE>>
      [] code.kind = "setitem" ->
           <<[sandbox EXCEPT !.gmcp = Stored(@, code.key, code.value)], FALSE>>
      [] code.kind = "delitem" ->
           IF code.key \in DOMAIN sandbox.gmcp
           THEN <<[sandbox EXCEPT !.gmcp = Popped(@, code.key)], FALSE>>
           ELSE <<sandbox, TRUE>>
      [] code.kind = "clear" -> <<[sandbox EXCEPT !.gmcp = NoData], FALSE>>
      [] code.kind = "rebind" -> <<[sandbox EXCEPT !.rebound = TRUE], FALSE>>

\* Context.exec_script(code_obj): the sandbox's gmcp is the object
\* self._app.gmcp_data itself, so what the code does to the dict it finds
\* under that name is done to the application's dict; reading the
\* attribute before it is set is an AttributeError.
exec_script(code) ==
    IF gmcp_data = <<>>
    THEN /\ lastCall' = Raised("exec_script", <<code.kind, code.key>>, <<>>, <<>>)
         /\ UNCHANGED <<db, _triggers, _aliases, regOrder, appVars>>
    ELSE LET r == Exec(code, [gmcp |-> gmcp_data[1], rebound |-> FALSE])
         IN  /\ gmcp_data' = <<r[1].gmcp>>
             /\ lastCall' = IF r[2] THEN Raised("exec_script", <<code.kind, code.key>>, <<>>, <<>>)
                             ELSE Returned("exec_script", <<code.kind, code.key>>, FALSE, <<>>, <<>>)
             /\ UNCHANGED <<db, _triggers, _aliases, regOrder, connVars, uiVars>>

\* The surrounding application records a telemetry message in its snapshot.
telemetry(key, value) ==
    /\ gmcp_data' = <<Stored(IF gmcp_data = <<>> THEN NoData ELSE gmcp_data[1],
                             key, value)>>
    /\ lastCall' = Returned("telemetry", <<key>>, FALSE, <<>>, <<>>)
    /\ UNCHANGED <<db, _triggers, _aliases, regOrder, connVars, uiVars>>

(***************************************************************************)
(* MudConnection (core/connection.py): the send queue.  A connection value *)
(* holds the fields a call changes; a message is the number of its         *)
(* acceptance with its wait_for_ga flag.                                   *)
(***************************************************************************)
TheConn ==
    [send_queue |-> _send_queue, waiting_for_ga |-> _waiting_for_ga,
     ga_timer |-> _ga_timer, single_shots |-> single_shots, written |-> written]

\* how many messages send and send_gmcp have appended so far
Accepted == Len(written) + Len(_send_queue)

\* _try_send_next that takes the newest message of the queue
_try_send_next_newest(c) ==
    IF c.waiting_for_ga THEN c
    ELSE IF c.send_queue = <<>> THEN c
    ELSE LET m == c.send_queue[Len(c.send_queue)] IN
         [c EXCEPT !.send_queue = SubSeq(@, 1, Len(@) - 1),
                   !.written = Append(@, m),
                   !.waiting_for_ga = m.wait_for_ga,
                   !.ga_timer = IF m.wait_for_ga THEN TRUE ELSE @,
                   !.single_shots = IF m.wait_for_ga THEN @ ELSE @ + 1]

\* _try_send_next that schedules no continuation after a plain-text write
_try_send_next_unscheduled(c) ==
    IF c.waiting_for_ga THEN c
    ELSE IF c.send_queue = <<>> THEN c
    ELSE LET m == Head(c.send_queue) IN
         [c EXCEPT !.send_queue = Tail(@),
                   !.written = Append(@, m),
                   !.waiting_for_ga = m.wait_for_ga,
                   !.ga_timer = IF m.wait_for_ga THEN TRUE ELSE @]

\* _try_send_next()
_try_send_next(c) ==
    IF c.waiting_for_ga THEN c
    ELSE IF c.send_queue = <<>> THEN c
    ELSE LET m == Head(c.send_queue) IN
         [c EXCEPT !.send_queue = Tail(@),
                   !.written = Append(@, m),
                   !.waiting_for_ga = m.wait_for_ga,
                   !.ga_timer = IF m.wait_for_ga THEN TRUE ELSE @,
                   !.single_shots = IF m.wait_for_ga THEN @ ELSE @ + 1]

\* _reset_and_send_next()
_reset_and_send_next(c) == _try_send_next([c EXCEPT !.waiting_for_ga = FALSE])

\* the append and the test that follows it, in send and in send_gmcp
Enqueue(c, wait_for_ga) ==
    LET q == [c EXCEPT !.send_queue =
                 Append(@, [msg |-> Accepted + 1, wait_for_ga |-> wait_for_ga])]
    IN  IF ~q.waiting_for_ga THEN _try_send_next(q) ELSE q

\* a call on the connection ended with the connection as c
ConnCalled(op, c, ga_handled) ==
    /\ _send_queue' = c.send_queue
    /\ _waiting_for_ga' = c.waiting_for_ga
    /\ _ga_timer' = c.ga_timer
    /\ single_shots' = c.single_shots
    /\ written' = c.written
    /\ ga_since_write' = IF c.written # written THEN FALSE
                         ELSE IF ga_handled THEN TRUE ELSE ga_since_write
    /\ connCall' = [op |-> op, error |-> FALSE]

\* send(text)
send ==
    IF ~connected
    THEN /\ connCall' = [op |-> "send", error |-> TRUE]
         /\ UNCHANGED <<_send_queue, _waiting_for_ga, _ga_timer, single_shots,
                        written, ga_since_write>>
    ELSE ConnCalled("send", Enqueue(TheConn, FALSE), FALSE)

\* send_gmcp(package, payload)
send_gmcp == ConnCalled("send_gmcp", Enqueue(TheConn, TRUE), FALSE)

\* _on_ga()
_on_ga ==
    ConnCalled("_on_ga", _reset_and_send_next([TheConn EXCEPT !.ga_timer = FALSE]), TRUE)

\* _on_ga_timeout(), when the single-shot GA timer fires
_on_ga_timeout ==
    ConnCalled("_on_ga_timeout",
               _reset_and_send_next([TheConn EXCEPT !.ga_timer = FALSE]), TRUE)

\* a QTimer.singleShot(0, self._reset_and_send_next) callback runs
continuation ==
    ConnCalled("_reset_and_send_next",
               _reset_and_send_next([TheConn EXCEPT !.single_shots = @ - 1]), FALSE)

NoConnCall == [op |-> "none", error |-> FALSE]

IdleConn ==
    /\ connected = FALSE
    /\ _send_queue = <<>>
    /\ _waiting_for_ga = FALSE
    /\ _ga_timer = FALSE
    /\ single_shots = 0
    /\ written = <<>>
    /\ ga_since_write = FALSE
    /\ connCall = NoConnCall

(***************************************************************************)
(* Console and ConsoleInput (ui/widgets/console): the input field, the     *)
(* command history, the completion lexicon and the console display.  A     *)
(* text is a sequence of characters; a typed character carries whether     *)
(* masking was on when it was typed.  The input alphabet has no white      *)
(* space, so a text is one word and strip() leaves it as it is.            *)
(***************************************************************************)
\* the character the field shows for a masked one
Bullet == [ch |-> "*", masked |-> FALSE]

\* "●" * n
RECURSIVE Bullets(_)
Bullets(n) == IF n = 0 THEN <<>> ELSE Append(Bullets(n - 1), Bullet)

\* an input field value
TheInput ==
    [masking |-> _masking, buffer |-> _buffer, plain_text |-> plain_text,
     selected |-> selected]

\* setMasking(enabled)
setMasking(inp, enabled) ==
    [inp EXCEPT !.masking = enabled,
                !.plain_text = IF enabled THEN Bullets(Len(inp.buffer)) ELSE inp.buffer,
                !.selected = FALSE]

\* QPlainTextEdit inserting text at the cursor, which is at the end; a
\* selection is replaced
InsertPlainText(inp, text) ==
    [inp EXCEPT !.plain_text = IF inp.selected THEN text ELSE @ \o text,
                !.selected = FALSE]

\* QPlainTextEdit handling Backspace
DeletePrevious(inp) ==
    [inp EXCEPT !.plain_text = IF inp.selected \/ @ = <<>> THEN <<>>
                               ELSE SubSeq(@, 1, Len(@) - 1),
                !.selected = FALSE]

\* _refresh_masked_display()
_refresh_masked_display(inp) ==
    [inp EXCEPT !.plain_text = Bullets(Len(inp.buffer)), !.selected = FALSE]

\* ConsoleInput.clear()
ClearInput(inp) == [inp EXCEPT !.buffer = <<>>, !.plain_text = <<>>, !.selected = FALSE]

\* Console._update_lexicon(text) for a text of one word
_update_lexicon(lex, text) ==
    IF text = <<>> THEN lex
    ELSE <<text>> \o SelectSeq(lex, LAMBDA w : w # text)

\* an event of the input field ended with the field as inp
InputCalled(op, inp, emitted) ==
    /\ _masking' = inp.masking
    /\ _buffer' = inp.buffer
    /\ plain_text' = inp.plain_text
    /\ selected' = inp.selected
    /\ uiCall' = [op |-> op, emitted |-> emitted]

\* Console.handle_input()
handle_input ==
    IF ~_masking
    THEN LET text == plain_text IN
         IF text = <<>>
         THEN /\ InputCalled("handle_input", TheInput, <<>>)
              /\ UNCHANGED <<history, lexicon, console_out>>
         ELSE /\ console_out' = Append(console_out, text)
              /\ lexicon' = _update_lexicon(lexicon, text)
              /\ history' = Append(SelectSeq(history, LAMBDA h : h # text), text)
              /\ InputCalled("handle_input", [TheInput EXCEPT !.selected = TRUE], <<text>>)
    ELSE /\ InputCalled("handle_input", ClearInput(TheInput), <<_buffer>>)
         /\ UNCHANGED <<history, lexicon, console_out>>

\* keyPressEvent for a printable character
keyPressText(c) ==
    /\ IF _masking
       THEN InputCalled("keyPressEvent",
                InsertPlainText([TheInput EXCEPT
                                    !.buffer = Append(@, [ch |-> c, masked |-> TRUE])],
                                <<Bullet>>), <<>>)
       ELSE InputCalled("keyPressEvent",
                InsertPlainText(TheInput, <<[ch |-> c, masked |-> FALSE]>>), <<>>)
    /\ UNCHANGED <<history, lexicon, console_out>>

\* keyPressEvent for Backspace
keyPressBackspace ==
    /\ IF _masking
       THEN InputCalled("keyPressEvent",
                _refresh_masked_display([TheInput EXCEPT
                    !.buffer = IF @ = <<>> THEN <<>> ELSE SubSeq(@, 1, Len(@) - 1)]),
                <<>>)
       ELSE InputCalled("keyPressEvent", DeletePrevious(TheInput), <<>>)
    /\ UNCHANGED <<history, lexicon, console_out>>

\* App._on_negotiation(cmd, ECHO) for cmd WILL (masking on) or WONT (off)
_on_negotiation(cmd) ==
    /\ cmd \in {WILL, WONT}
    /\ InputCalled("setMasking", setMasking(TheInput, cmd = WILL), <<>>)
    /\ UNCHANGED <<history, lexicon, console_out>>

NoUiCall == [op |-> "none", emitted |-> <<>>]

IdleUi ==
    /\ _masking = FALSE
    /\ _buffer = <<>>
    /\ plain_text = <<>>
    /\ selected = FALSE
    /\ history = <<>>
    /\ lexicon = <<>>
    /\ console_out = <<>>
    /\ uiCall = NoUiCall

IdleApp == gmcp_data = <<>> /\ IdleConn /\ IdleUi

(***************************************************************************)
(* MapGraph (ui/widgets/mapper/map_graph.py)                               *)
(*                                                                         *)
(* A links dict is a sequence of <<direction, neighbour hash>> pairs with  *)
(* distinct directions, in insertion order.  An optional value (a key a    *)
(* dict may lack, an attribute an edge may lack) is <<>> when missing and  *)
(* <<v>> when present.                                                     *)
(***************************************************************************)
\* _TXT_TO_DELTA
BaseDirections ==
    {"northwest", "north", "northeast", "west", "east",
     "southwest", "south", "southeast"}

_TXT_TO_DELTA(base) ==
    CASE base = "northwest" -> <<-1, -1>>
      [] base = "north"     -> << 0, -1>>
      [] base = "northeast" -> << 1, -1>>
      [] base = "west"      -> <<-1,  0>>
      [] base = "east"      -> << 1,  0>>
      [] base = "southwest" -> <<-1,  1>>
      [] base = "south"     -> << 0,  1>>
      [] base = "southeast" -> << 1,  1>>

\* _strip_vertical_suffix, on the direction tokens the model uses
_strip_vertical_suffix(dir_text) ==
    CASE dir_text = "northup"   -> "north"
      [] dir_text = "northdown" -> "north"
      [] dir_text = "eastup"    -> "east"
      [] dir_text = "eastdown"  -> "east"
      [] dir_text = "up"        -> ""
      [] dir_text = "down"      -> ""
      [] OTHER                  -> dir_text

\* Room.__init__(info, grid_x, grid_y): the fields the graph reads.  The
\* constructor has three required parameters.
NoDescription == "no description"

UnknownTerrain == [known |-> FALSE, code |-> 0]

Terrain(code) == [known |-> TRUE, code |-> code]

Room(info, grid_x, grid_y) ==
    [desc    |-> IF info.short = <<>> THEN NoDescription ELSE info.short[1],
     terrain |-> IF info.type = <<>> THEN UnknownTerrain ELSE Terrain(info.type[1]),
     links   |-> IF info.links = <<>> THEN <<>> ELSE info.links[1]]

\* info dicts
Info(hash, short, type, links) ==
    [hash |-> hash, short |-> short, type |-> type, links |-> links]

\* The graph as a value.  raised is set when a call on it ended in an
\* exception; what the call had done to the graph by then stays done.
Graph(ns, rs, es) == [nodes |-> ns, rooms |-> rs, edges |-> es, raised |-> FALSE]

\* Room(info) and Room({"hash": dest_hash}) in add_or_update_room: the call
\* passes one argument to a constructor that requires three, a TypeError
RoomWithoutGrid(g) == [g EXCEPT !.raised = TRUE]

EdgeKey(a, b) == {a, b}

\* has_edge(a, b)
has_edge(g, a, b) == EdgeKey(a, b) \in DOMAIN g.edges

\* add_room(room), for a room hash `key`
add_room(g, key, room) ==
    IF key = "" THEN g
    ELSE IF key \in g.nodes THEN g
    ELSE [g EXCEPT !.nodes = g.nodes \cup {key},
                   !.rooms = (key :> room) @@ g.rooms]

\* networkx add_edge(u, v, **attrs): create the edge or update its attributes
NoEdgeAttrs == [border |-> <<>>, door_open |-> <<>>]

\* connect_rooms that stores the opposite of the door state it is handed
connect_rooms_flipping_door(g, src_hash, dst_hash, border, door_open) ==
    IF src_hash \in g.nodes /\ dst_hash \in g.nodes
    THEN LET k   == EdgeKey(src_hash, dst_hash)
             old == IF k \in DOMAIN g.edges THEN g.edges[k] ELSE NoEdgeAttrs
             new == [border    |-> <<border>>,
                     door_open |-> IF door_open # <<>> THEN <<~door_open[1]>>
                                   ELSE old.door_open]
         IN  [g EXCEPT !.edges = (k :> new) @@ g.edges]
    ELSE g

\* connect_rooms that writes a cleared border whatever it is handed
connect_rooms_resetting_border(g, src_hash, dst_hash, border, door_open) ==
    IF src_hash \in g.nodes /\ dst_hash \in g.nodes
    THEN LET k   == EdgeKey(src_hash, dst_hash)
             old == IF k \in DOMAIN g.edges THEN g.edges[k] ELSE NoEdgeAttrs
             new == [border    |-> <<FALSE>>,
                     door_open |-> IF door_open # <<>> THEN door_open
                                   ELSE old.door_open]
         IN  [g EXCEPT !.edges = (k :> new) @@ g.edges]
    ELSE g

\* connect_rooms(src_hash, dst_hash, border, door_open); door_open is optional
connect_rooms(g, src_hash, dst_hash, border, door_open) ==
    IF src_hash \in g.nodes /\ dst_hash \in g.nodes
    THEN LET k   == EdgeKey(src_hash, dst_hash)
             old == IF k \in DOMAIN g.edges THEN g.edges[k] ELSE NoEdgeAttrs
             new == [border    |-> <<border>>,
                     door_open |-> IF door_open # <<>> THEN door_open
                                   ELSE old.door_open]
         IN  [g EXCEPT !.edges = (k :> new) @@ g.edges]
    ELSE g

\* exit_types.get(dir_txt): <<>> or <<code>>
ExitCode(exit_types, dir_txt) ==
    IF dir_txt \in DOMAIN exit_types THEN <<exit_types[dir_txt]>> ELSE <<>>

OPEN_DOOR == 101

CLOSED_DOOR == -101

\* add_or_update_room, step 2, for one (dir_txt, dest_hash) of room.links
LinkRoom(g, room_hash, dir_txt, dest_hash, exit_types) ==
    IF dest_hash = "" THEN g
    ELSE IF dest_hash \notin g.nodes THEN RoomWithoutGrid(g)
    ELSE LET existing_border ==
                 IF has_edge(g, room_hash, dest_hash)
                 THEN LET data == g.edges[EdgeKey(room_hash, dest_hash)]
                      IN  IF data.border = <<>> THEN FALSE ELSE data.border[1]
                 ELSE FALSE
             existing_door_open ==
                 IF has_edge(g, room_hash, dest_hash)
                 THEN g.edges[EdgeKey(room_hash, dest_hash)].door_open
                 ELSE <<>>
             code == ExitCode(exit_types, dir_txt)
             door_open == IF code = <<OPEN_DOOR>> THEN <<TRUE>>
                          ELSE IF code = <<CLOSED_DOOR>> THEN <<FALSE>>
                          ELSE existing_door_open
         IN  connect_rooms(g, room_hash, dest_hash, existing_border, door_open)

\* the for loop over room.links.items(); it ends at the first exception
RECURSIVE LinkRooms(_, _, _, _)
LinkRooms(g, room_hash, links, exit_types) ==
    IF links = <<>> \/ g.raised THEN g
    ELSE LinkRooms(LinkRoom(g, room_hash, Head(links)[1], Head(links)[2], exit_types),
                   room_hash, Tail(links), exit_types)

\* add_or_update_room, step 1: create or update the primary room node
UpsertRoom(g, info) ==
    IF info.hash \in g.nodes
    THEN LET room == g.rooms[info.hash] IN
         [g EXCEPT !.rooms[info.hash] =
             [desc    |-> IF info.short = <<>> THEN room.desc ELSE info.short[1],
              terrain |-> IF info.type = <<>> THEN room.terrain
                          ELSE Terrain(info.type[1]),
              links   |-> IF info.links = <<>> THEN room.links ELSE info.links[1]]]
    ELSE RoomWithoutGrid(g)

\* add_or_update_room(info, exit_types), as a function of the graph
AddOrUpdateRoom(g, info, exit_types) ==
    IF info.hash = "" THEN g
    ELSE LET g1 == UpsertRoom(g, info)
         IN  IF g1.raised THEN g1
             ELSE LinkRooms(g1, info.hash, g1.rooms[info.hash].links, exit_types)

\* set_border(a_hash, b_hash, border)
SetBorder(g, a_hash, b_hash, border) ==
    IF has_edge(g, a_hash, b_hash)
    THEN [g EXCEPT !.edges[EdgeKey(a_hash, b_hash)].border = <<border>>]
    ELSE g

\* is_border that never reports a border
is_border_never(g, a_hash, b_hash) == FALSE

\* is_border(a_hash, b_hash)
is_border(g, a_hash, b_hash) ==
    IF has_edge(g, a_hash, b_hash)
    THEN LET data == g.edges[EdgeKey(a_hash, b_hash)]
         IN  IF data.border = <<>> THEN FALSE ELSE data.border[1]
    ELSE FALSE

(***************************************************************************)
(* layout_from_root.  The traversal state is positions, coord_owner and    *)
(* queue; overlaps records, for each neighbour the overlap check skipped,  *)
(* <<neighbour, target cell>>.                                             *)
(***************************************************************************)
\* the body of the layout loop without the overlap check
LayoutLinkOverwriting(g, st, cur, dir_txt, neigh) ==
    IF is_border(g, cur, neigh) THEN st
    ELSE IF neigh = "" \/ neigh \notin g.nodes THEN st
    ELSE LET base == _strip_vertical_suffix(dir_txt) IN
         IF base \notin BaseDirections THEN st
         ELSE IF neigh \in DOMAIN st.positions THEN st
         ELSE LET delta  == _TXT_TO_DELTA(base)
                  target == <<st.positions[cur][1] + delta[1],
                              st.positions[cur][2] + delta[2]>>
              IN  [st EXCEPT !.positions = (neigh :> target) @@ st.positions,
                             !.coord_owner = (target :> neigh) @@ st.coord_owner,
                             !.queue = Append(st.queue, neigh)]

\* the body of the for loop without the border test
LayoutLinkThroughBorder(g, st, cur, dir_txt, neigh) ==
    IF neigh = "" \/ neigh \notin g.nodes THEN st
    ELSE LET base == _strip_vertical_suffix(dir_txt) IN
         IF base \notin BaseDirections THEN st
         ELSE IF neigh \in DOMAIN st.positions THEN st
         ELSE LET delta  == _TXT_TO_DELTA(base)
                  target == <<st.positions[cur][1] + delta[1],
                              st.positions[cur][2] + delta[2]>>
              IN  IF target \in DOMAIN st.coord_owner
                     /\ st.coord_owner[target] # neigh
                  THEN [st EXCEPT !.overlaps = Append(st.overlaps, <<neigh, target>>)]
                  ELSE [st EXCEPT !.positions = (neigh :> target) @@ st.positions,
                                  !.coord_owner = (target :> neigh) @@ st.coord_owner,
                                  !.queue = Append(st.queue, neigh)]

\* the body of the for loop without the "already placed?" test
LayoutLinkRevisiting(g, st, cur, dir_txt, neigh) ==
    IF is_border(g, cur, neigh) THEN st
    ELSE IF neigh = "" \/ neigh \notin g.nodes THEN st
    ELSE LET base == _strip_vertical_suffix(dir_txt) IN
         IF base \notin BaseDirections THEN st
         ELSE LET delta  == _TXT_TO_DELTA(base)
                  target == <<st.positions[cur][1] + delta[1],
                              st.positions[cur][2] + delta[2]>>
              IN  IF target \in DOMAIN st.coord_owner
                     /\ st.coord_owner[target] # neigh
                  THEN [st EXCEPT !.overlaps = Append(st.overlaps, <<neigh, target>>)]
                  ELSE [st EXCEPT !.positions = (neigh :> target) @@ st.positions,
                                  !.coord_owner = (target :> neigh) @@ st.coord_owner,
                                  !.queue = Append(st.queue, neigh)]

\* the body of the for loop, for one (dir_txt, neigh) of the room cur
LayoutLink(g, st, cur, dir_txt, neigh) ==
    IF is_border(g, cur, neigh) THEN st
    ELSE IF neigh = "" \/ neigh \notin g.nodes THEN st
    ELSE LET base == _strip_vertical_suffix(dir_txt) IN
         IF base \notin BaseDirections THEN st
         ELSE IF neigh \in DOMAIN st.positions THEN st
         ELSE LET delta  == _TXT_TO_DELTA(base)
                  target == <<st.positions[cur][1] + delta[1],
                              st.positions[cur][2] + delta[2]>>
              IN  IF target \in DOMAIN st.coord_owner
                     /\ st.coord_owner[target] # neigh
                  THEN [st EXCEPT !.overlaps = Append(st.overlaps, <<neigh, target>>)]
                  ELSE [st EXCEPT !.positions = (neigh :> target) @@ st.positions,
                                  !.coord_owner = (target :> neigh) @@ st.coord_owner,
                                  !.queue = Append(st.queue, neigh)]

RECURSIVE LayoutLinks(_, _, _, _)
LayoutLinks(g, st, cur, links) ==
    IF links = <<>> THEN st
    ELSE LayoutLinks(g, LayoutLink(g, st, cur, Head(links)[1], Head(links)[2]),
                     cur, Tail(links))

\* the while loop
RECURSIVE LayoutQueue(_, _)
LayoutQueue(g, st) ==
    IF st.queue = <<>> THEN st
    ELSE LET cur == Head(st.queue)
         IN  LayoutQueue(g, LayoutLinks(g, [st EXCEPT !.queue = Tail(st.queue)],
                                        cur, g.rooms[cur].links))

NoLayout == [root |-> "", positions |-> <<>>, coord_owner |-> <<>>,
             queue |-> <<>>, overlaps |-> <<>>]

\* layout_from_root(root_hash)
LayoutFromRoot(g, root_hash) ==
    IF root_hash \notin g.nodes THEN [NoLayout EXCEPT !.root = root_hash]
    ELSE LayoutQueue(g, [root        |-> root_hash,
                         positions   |-> (root_hash :> <<0, 0>>),
                         coord_owner |-> (<<0, 0>> :> root_hash),
                         queue       |-> <<root_hash>>,
                         overlaps    |-> <<>>])

(***************************************************************************)
(* The graph's operations as actions.                                      *)
(***************************************************************************)
TheGraph == Graph(nodes, rooms, edges)

NoMapCall == [op |-> "none", outcome |-> "returned", cleared |-> {}]

IdleMap ==
    /\ nodes = {}
    /\ rooms = <<>>
    /\ edges = <<>>
    /\ mapCall = NoMapCall
    /\ layout = NoLayout

\* add_room(Room(info, grid_x, grid_y))
AddRoom(info, grid_x, grid_y) ==
    LET g == add_room(TheGraph, info.hash, Room(info, grid_x, grid_y)) IN
    /\ nodes' = g.nodes
    /\ rooms' = g.rooms
    /\ edges' = g.edges
    /\ mapCall' = [NoMapCall EXCEPT !.op = "add_room"]
    /\ layout' = NoLayout

add_or_update_room(info, exit_types) ==
    LET g == AddOrUpdateRoom(TheGraph, info, exit_types) IN
    /\ nodes' = g.nodes
    /\ rooms' = g.rooms
    /\ edges' = g.edges
    /\ mapCall' = [NoMapCall EXCEPT
                      !.op = "add_or_update_room",
                      !.outcome = IF g.raised THEN "raised" ELSE "returned"]
    /\ layout' = NoLayout

set_border(a_hash, b_hash, border) ==
    LET g == SetBorder(TheGraph, a_hash, b_hash, border) IN
    /\ nodes' = g.nodes
    /\ rooms' = g.rooms
    /\ edges' = g.edges
    /\ mapCall' = [NoMapCall EXCEPT
                      !.op = "set_border",
                      !.cleared = IF /\ has_edge(TheGraph, a_hash, b_hash)
                                     /\ edges[EdgeKey(a_hash, b_hash)].border = <<TRUE>>
                                     /\ ~border
                                  THEN EdgeKey(a_hash, b_hash) ELSE {}]
    /\ layout' = NoLayout

layout_from_root(root_hash) ==
    /\ layout' = LayoutFromRoot(TheGraph, root_hash)
    /\ mapCall' = [NoMapCall EXCEPT
                      !.op = "layout_from_root",
                      !.cleared = IF mapCall.op = "set_border"
                                  THEN mapCall.cleared ELSE {}]
    /\ UNCHANGED <<nodes, rooms, edges>>

(***************************************************************************)
(* The in-memory trigger registry: registrations, removals and incoming    *)
(* lines.                                                                  *)
(***************************************************************************)
RuleNames == {"a", "b"}

Priorities == {1, 5}

Regexes == {<<"x">>, <<"y">>, BadPattern}

Texts == {<<"x">>, <<"y", "x">>, <<"z">>}

TriggerActions == {"return", "raise"}

InitTrigger == IdleRules

AddTrigger ==
    \E name \in RuleNames, regex \in Regexes, action \in TriggerActions,
       enabled \in BOOLEAN, priority \in Priorities, gag \in BOOLEAN :
        add_trigger(name, regex, action, enabled, priority, gag) /\ UNCHANGED <<telnetVars, mapVars, timerVars, appVars>>

RemoveTrigger == \E name \in RuleNames : remove_trigger(name) /\ UNCHANGED <<telnetVars, mapVars, timerVars, appVars>>

CheckTriggers == \E text \in Texts : check_triggers(text) /\ UNCHANGED <<telnetVars, mapVars, timerVars, appVars>>

NextTrigger == AddTrigger \/ RemoveTrigger \/ CheckTriggers

TriggerStart == InitTrigger /\ IdleTelnet /\ IdleMap /\ IdleTimers /\ IdleApp

SpecTrigger == TriggerStart /\ [][NextTrigger]_vars

(***************************************************************************)
(* The alias registry and outgoing commands.                               *)
(***************************************************************************)
MaxAliases == 2

AliasActions == {SendAction(<<"x">>), SendAction(<<"z">>), EchoAction, RaiseAction}

RegisterAlias ==
    \E pattern \in Regexes, action_fn \in AliasActions, priority \in Priorities :
        /\ Len(_aliases) < MaxAliases
        /\ register_alias(pattern, action_fn, priority)
        /\ UNCHANGED <<telnetVars, mapVars, timerVars, appVars>>

\* AliasManager.clear_all()
AliasClearAll ==
    /\ _aliases' = <<>>
    /\ lastCall' = Returned("clear_all", <<>>, FALSE, <<>>, <<>>)
    /\ UNCHANGED <<db, _triggers, regOrder>>
    /\ UNCHANGED <<telnetVars, mapVars, timerVars, appVars>>

SendToMud ==
    \E text \in Texts, open \in BOOLEAN : send_to_mud(text, open) /\ UNCHANGED <<telnetVars, mapVars, timerVars, appVars>>

NextAlias == RegisterAlias \/ AliasClearAll \/ SendToMud

AliasStart == IdleRules /\ IdleTelnet /\ IdleMap /\ IdleTimers /\ IdleApp

SpecAlias == AliasStart /\ [][NextAlias]_vars

(***************************************************************************)
(* Start-up and reload from a persisted profile: the Script table holds    *)
(* at most MaxRecs rows, row i named RecNames[i].                          *)
(***************************************************************************)
MaxRecs == 2

RecNames == <<"a", "b", "c", "d">>

PersistedRows(i) ==
    {Script(RecNames[i], "trigger", pattern, "return", enabled, priority) :
        pattern \in {<<"x">>, BadPattern}, enabled \in BOOLEAN, priority \in Priorities}
    \cup
    {Script(RecNames[i], "alias", pattern, EchoAction, enabled, priority) :
        pattern \in {<<"x">>, BadPattern}, enabled \in BOOLEAN, priority \in Priorities}

PersistedTables ==
    {table \in SeqsUpTo(UNION {PersistedRows(i) : i \in 1..MaxRecs}, MaxRecs) :
        \A i \in 1..Len(table) : table[i] \in PersistedRows(i)}

InitLoad ==
    /\ db \in PersistedTables
    /\ _triggers = <<>>
    /\ _aliases = <<>>
    /\ regOrder = <<>>
    /\ lastCall = NoCall

ReloadTriggers == TriggerReload /\ UNCHANGED <<telnetVars, mapVars, timerVars, appVars>>

ReloadAliases == AliasReload /\ UNCHANGED <<telnetVars, mapVars, timerVars, appVars>>

LoadedLine == \E text \in Texts : check_triggers(text) /\ UNCHANGED <<telnetVars, mapVars, timerVars, appVars>>

LoadedCommand == \E text \in Texts : send_to_mud(text, TRUE) /\ UNCHANGED <<telnetVars, mapVars, timerVars, appVars>>

NextLoad == ReloadTriggers \/ ReloadAliases \/ LoadedLine \/ LoadedCommand

LoadStart == InitLoad /\ IdleTelnet /\ IdleMap /\ IdleTimers /\ IdleApp

SpecLoad == LoadStart /\ [][NextLoad]_vars

(***************************************************************************)
(* Reloads of a running client: the system triggers are registered at      *)
(* start-up, the user adds aliases, and the editors reload the managers    *)
(* and the scripts from the persisted profile.                             *)
(***************************************************************************)
\* register_system_triggers(manager)
SystemTriggers ==
    /\ add_trigger("login_alert", <<"x">>, "return", TRUE, 0, FALSE)
    /\ UNCHANGED <<telnetVars, mapVars, timerVars, appVars>>

UserAlias ==
    /\ Len(_aliases) < MaxAliases
    /\ \E priority \in Priorities : register_alias(<<"y">>, EchoAction, priority)
    /\ UNCHANGED <<telnetVars, mapVars, timerVars, appVars>>

ReloadScripts == ManagedLoadAllScripts /\ UNCHANGED <<telnetVars, mapVars, appVars>>

NextReload ==
    \/ SystemTriggers \/ UserAlias
    \/ ReloadTriggers \/ ReloadAliases \/ ReloadScripts
    \/ LoadedLine \/ LoadedCommand

SpecReload == LoadStart /\ [][NextReload]_vars

NextTelnet == FeedChunk /\ UNCHANGED <<ruleVars, mapVars, timerVars, appVars>>

TelnetStart == InitTelnet /\ IdleRules /\ IdleMap /\ IdleTimers /\ IdleApp

SpecTelnet == TelnetStart /\ [][NextTelnet]_vars

(***************************************************************************)
(* Long subnegotiations.  The server opens a subnegotiation and the        *)
(* payload arrives over many readyReads: in blocks of BlockLen bytes while *)
(* a block still fits under MAX_SB_LEN, byte by byte near the cap.  An     *)
(* escaped IAC (IAC IAC) arrives at the start of the payload or near the   *)
(* cap.  The run ends with IAC SE, with a malformed IAC <byte>, or by      *)
(* running over the cap; printable bytes follow.  The long payloads are of  *)
(* an option other than GMCP; a GMCP payload is a few bytes.  Every action *)
(* is one call of feed; input records the bytes that have arrived so far.  *)
(***************************************************************************)
BlockLen == 32

\* at most this many escaped IACs are fed once the buffer is full
MaxOver == 2

\* at most this many callbacks are made in a run of the model
MaxCalls == 2

\* a byte that never starts a UTF-8 sequence
BadUtf8 == 192

Block == [i \in 1..BlockLen |-> LetterA]

FeedArrived(chunk) ==
    LET r == FeedResult(Parser, chunk) IN
    /\ state' = r[1].state
    /\ pend_cmd' = r[1].pend_cmd
    /\ sb_opt' = r[1].sb_opt
    /\ sb_buf' = r[1].sb_buf
    /\ returned' = Append(returned, r[2])
    /\ calls' = calls \o r[3]
    /\ input' = input \o chunk
    /\ pos' = Len(input) + Len(chunk)

NearCap == Len(sb_buf) + BlockLen > MAX_SB_LEN

UnrecognizedIac ==
    /\ input = <<>>
    /\ FeedArrived(<<IAC, LetterA>>)
    /\ UNCHANGED <<ruleVars, mapVars, timerVars, appVars>>

SbBegin ==
    /\ state = "data" /\ sb_opt = FreshParser.sb_opt /\ calls = <<>>
    /\ \E opt \in {ATCP2, ECHO} : FeedArrived(<<IAC, SB, opt>>)
    /\ UNCHANGED <<ruleVars, mapVars, timerVars, appVars>>

SbBlock ==
    /\ state = "sb_data" /\ sb_opt # ATCP2 /\ ~NearCap
    /\ FeedArrived(Block)
    /\ UNCHANGED <<ruleVars, mapVars, timerVars, appVars>>

SbByte ==
    /\ state = "sb_data"
    /\ \/ NearCap /\ FeedArrived(<<LetterA>>)
       \/ sb_buf = <<>> /\ FeedArrived(<<BadUtf8>>)
    /\ UNCHANGED <<ruleVars, mapVars, timerVars, appVars>>

SbEscapedIac ==
    /\ state = "sb_data"
    /\ sb_buf = <<>> \/ Len(sb_buf) >= MAX_SB_LEN - 1
    /\ Len(sb_buf) < MAX_SB_LEN + MaxOver
    /\ FeedArrived(<<IAC, IAC>>)
    /\ UNCHANGED <<ruleVars, mapVars, timerVars, appVars>>

SbEnd ==
    /\ state = "sb_data"
    /\ FeedArrived(<<IAC, SE>>)
    /\ UNCHANGED <<ruleVars, mapVars, timerVars, appVars>>

SbMalformed ==
    /\ state = "sb_data"
    /\ FeedArrived(<<IAC, LetterA>>)
    /\ UNCHANGED <<ruleVars, mapVars, timerVars, appVars>>

Printable ==
    /\ state = "data" /\ sb_opt # FreshParser.sb_opt /\ Len(calls) < MaxCalls
    /\ FeedArrived(<<LetterA>>)
    /\ UNCHANGED <<ruleVars, mapVars, timerVars, appVars>>

NextSb ==
    \/ UnrecognizedIac \/ SbBegin \/ SbBlock \/ SbByte \/ SbEscapedIac
    \/ SbEnd \/ SbMalformed \/ Printable

SbStart == IdleTelnet /\ IdleRules /\ IdleMap /\ IdleTimers /\ IdleApp

SpecSb == SbStart /\ [][NextSb]_vars

(***************************************************************************)
(* Timers.  The profile's Script table holds at most MaxRecs timer rows    *)
(* when the managers come up; the timer editor creates, updates, deletes   *)
(* and toggles timers and reloads the scripts, scripts stop timers, and    *)
(* running QTimers time out.  At most MaxQTimers QTimers are created.      *)
(***************************************************************************)
MaxQTimers == 3

TimerNames == {RecNames[i] : i \in 1..MaxRecs}

TimerRows(i) ==
    {Script(RecNames[i], "timer", pattern, "return", enabled, 0) :
        pattern \in {<<>>, <<"5">>}, enabled \in BOOLEAN}

TimerTables ==
    {table \in SeqsUpTo(UNION {TimerRows(i) : i \in 1..MaxRecs}, MaxRecs) :
        \A i \in 1..Len(table) : table[i] \in TimerRows(i)}

InitTimer ==
    /\ db \in TimerTables
    /\ _triggers = <<>>
    /\ _aliases = <<>>
    /\ regOrder = <<>>
    /\ lastCall = NoCall
    /\ IdleTimers

\* the interval the editor passes, in milliseconds
Intervals == {1000}

CreateTimer ==
    /\ \E name \in TimerNames, ms \in Intervals, enabled \in BOOLEAN :
          TimerCreate(name, ms, "return", 0, enabled)
    /\ UNCHANGED <<telnetVars, mapVars, appVars>>

UpdateTimer ==
    /\ \E name \in TimerNames, ms \in Intervals, enabled \in BOOLEAN :
          TimerUpdate(name, name, ms, "return", 0, enabled)
    /\ UNCHANGED <<telnetVars, mapVars, appVars>>

DeleteTimer == (\E name \in TimerNames : TimerDelete(name)) /\ UNCHANGED <<telnetVars, mapVars, appVars>>

ToggleTimer == (\E name \in TimerNames : TimerToggle(name)) /\ UNCHANGED <<telnetVars, mapVars, appVars>>

ReloadTimers == TimerReload /\ UNCHANGED <<telnetVars, mapVars, appVars>>

LoadAllScripts ==
    /\ Len(qtimers) + Len(SelectEnabled(db, "timer")) <= MaxQTimers
    /\ load_all_scripts
    /\ UNCHANGED <<telnetVars, mapVars, appVars>>

StopTimer == (\E name \in TimerNames : stop_timer(name)) /\ UNCHANGED <<telnetVars, mapVars, appVars>>

Timeout == (\E i \in 1..Len(qtimers) : timeout(i)) /\ UNCHANGED <<telnetVars, mapVars, appVars>>

NextTimer ==
    \/ CreateTimer \/ UpdateTimer \/ DeleteTimer \/ ToggleTimer
    \/ ReloadTimers \/ LoadAllScripts \/ StopTimer \/ Timeout

TimerStart == InitTimer /\ IdleTelnet /\ IdleMap /\ IdleApp

SpecTimer == TimerStart /\ [][NextTimer]_vars

(***************************************************************************)
(* Scripts and the telemetry snapshot: telemetry messages arrive and rule  *)
(* actions run through Context.exec_script.                                *)
(***************************************************************************)
\* the packages the key map reads from the snapshot
GmcpKeys == {"Room.Info", "LID"}

GmcpValues == {1, 2, 3}

ScriptCodes ==
    {ReadCode(key) : key \in GmcpKeys}
    \cup {StoreCode(key, value) : key \in GmcpKeys, value \in GmcpValues}
    \cup {DelCode(key) : key \in GmcpKeys}
    \cup {ClearCode, RebindCode}

Telemetry ==
    /\ \E key \in GmcpKeys, value \in GmcpValues : telemetry(key, value)
    /\ UNCHANGED <<telnetVars, mapVars, timerVars>>

ExecScript ==
    /\ \E code \in ScriptCodes : exec_script(code)
    /\ UNCHANGED <<telnetVars, mapVars, timerVars>>

NextScript == Telemetry \/ ExecScript

ScriptStart == IdleApp /\ IdleRules /\ IdleTelnet /\ IdleMap /\ IdleTimers

SpecScript == ScriptStart /\ [][NextScript]_vars

(***************************************************************************)
(* The room graph under telemetry: rooms are added, room-info packets      *)
(* with exit types are upserted, and the user toggles borders.             *)
(***************************************************************************)
MaxLinks == 2

\* links dicts of at most MaxLinks entries
LinkSeqs(Dirs, Dests) ==
    {s \in SeqsUpTo(Dirs \X Dests, MaxLinks) :
        \A i, j \in 1..Len(s) : i # j => s[i][1] # s[j][1]}

\* exit_types dicts
ExitTypeDicts(Dirs, Codes) == UNION {[D -> Codes] : D \in SUBSET Dirs}

Optional(S) == {<<>>} \cup {<<v>> : v \in S}

\* R is the room the telemetry describes, A a neighbour of it
MapHashes == {"R", "A"}

MapDirs == {"north", "east"}

OTHER_EXIT == 7

ExitCodes == {OPEN_DOOR, CLOSED_DOOR, OTHER_EXIT}

MapInfos ==
    {Info("R", f[1], f[2], l) :
        f \in {<<<<>>, <<>>>>, <<<<"hall">>, <<OTHER_EXIT>>>>},
        l \in Optional(LinkSeqs(MapDirs, {"A", ""}))}
    \cup {Info("A", <<>>, <<>>, <<>>), Info("", <<>>, <<>>, <<>>)}

MapExitTypes == ExitTypeDicts(MapDirs, ExitCodes)

MapAddRoom ==
    /\ \E info \in MapInfos : AddRoom(info, 0, 0)
    /\ UNCHANGED <<telnetVars, ruleVars, timerVars, appVars>>

MapUpsert ==
    /\ \E info \in MapInfos, exit_types \in MapExitTypes :
          add_or_update_room(info, exit_types)
    /\ UNCHANGED <<telnetVars, ruleVars, timerVars, appVars>>

MapSetBorder ==
    /\ \E a \in MapHashes, b \in MapHashes, border \in BOOLEAN :
          set_border(a, b, border)
    /\ UNCHANGED <<telnetVars, ruleVars, timerVars, appVars>>

NextMap == MapAddRoom \/ MapUpsert \/ MapSetBorder

MapStart == IdleMap /\ IdleTelnet /\ IdleRules /\ IdleTimers /\ IdleApp

SpecMap == MapStart /\ [][NextMap]_vars

(***************************************************************************)
(* Laying out the map: three rooms whose links point forward along         *)
(* R, A, B; R has up to MaxLinks exits and A at most one.  Telemetry       *)
(* brings the links of R and A, the user toggles the borders of R's        *)
(* edges, and the view lays the graph out from R or from A.                *)
(***************************************************************************)
LayoutHashes == {"R", "A", "B"}

LayoutDirs == {"north", "northup", "up"}

ForwardOf(hash) ==
    CASE hash = "R" -> {"A", "B"}
      [] hash = "A" -> {"B"}
      [] OTHER      -> {}

LayoutRoots == {"R", "A"}

LayoutLinksOf(hash) ==
    {l \in LinkSeqs(LayoutDirs, ForwardOf(hash)) : hash = "R" \/ Len(l) <= 1}

LayoutAddRoom ==
    /\ \E h \in LayoutHashes : AddRoom(Info(h, <<>>, <<>>, <<>>), 0, 0)
    /\ UNCHANGED <<telnetVars, ruleVars, timerVars, appVars>>

LayoutUpsert ==
    /\ \E h \in LayoutRoots :
          \E l \in LayoutLinksOf(h) :
             add_or_update_room(Info(h, <<>>, <<>>, <<l>>), <<>>)
    /\ UNCHANGED <<telnetVars, ruleVars, timerVars, appVars>>

LayoutSetBorder ==
    /\ \E b \in ForwardOf("R"), border \in BOOLEAN : set_border("R", b, border)
    /\ UNCHANGED <<telnetVars, ruleVars, timerVars, appVars>>

LayoutFrom ==
    /\ \E root_hash \in LayoutRoots : layout_from_root(root_hash)
    /\ UNCHANGED <<telnetVars, ruleVars, timerVars, appVars>>

NextLayout == LayoutAddRoom \/ LayoutUpsert \/ LayoutSetBorder \/ LayoutFrom

LayoutStart == IdleMap /\ IdleTelnet /\ IdleRules /\ IdleTimers /\ IdleApp

SpecLayout == LayoutStart /\ [][NextLayout]_vars

(***************************************************************************)
(* The traversal of layout_from_root, one iteration of its while loop per  *)
(* step, on graphs with cycles and rooms that link to themselves.  The     *)
(* variable layout holds the traversal's positions, coord_owner and queue; *)
(* the graph does not change while a traversal runs (the call is           *)
(* synchronous).                                                           *)
(***************************************************************************)
FloodHashes == {"R", "A", "B"}

FloodDirs == {"north", "southup"}

Traversing == layout.queue # <<>>

\* lines 153-158: the end of the call for an unknown root, else the loop's
\* first state
LayoutBegin(g, root_hash) ==
    IF root_hash \notin g.nodes THEN [NoLayout EXCEPT !.root = root_hash]
    ELSE [root        |-> root_hash,
          positions   |-> (root_hash :> <<0, 0>>),
          coord_owner |-> (<<0, 0>> :> root_hash),
          queue       |-> <<root_hash>>,
          overlaps    |-> <<>>]

\* one iteration of the while loop: popleft, then the for loop over the links
LayoutIteration(g, st) ==
    LET cur == Head(st.queue)
    IN  LayoutLinks(g, [st EXCEPT !.queue = Tail(st.queue)], cur, g.rooms[cur].links)

FloodAddRoom ==
    /\ ~Traversing
    /\ \E h \in FloodHashes : AddRoom(Info(h, <<>>, <<>>, <<>>), 0, 0)
    /\ UNCHANGED <<telnetVars, ruleVars, timerVars, appVars>>

FloodUpsert ==
    /\ ~Traversing
    /\ \E h \in FloodHashes \ {"B"} :
          \E l \in LinkSeqs(FloodDirs, FloodHashes) :
             add_or_update_room(Info(h, <<>>, <<>>, <<l>>), <<>>)
    /\ UNCHANGED <<telnetVars, ruleVars, timerVars, appVars>>

FloodBegin ==
    /\ ~Traversing
    /\ \E root_hash \in FloodHashes :
          /\ layout' = LayoutBegin(TheGraph, root_hash)
          /\ mapCall' = [NoMapCall EXCEPT
                            !.op = "layout_from_root",
                            !.outcome = IF root_hash \in nodes THEN "running"
                                        ELSE "returned"]
    /\ UNCHANGED <<nodes, rooms, edges>>
    /\ UNCHANGED <<telnetVars, ruleVars, timerVars, appVars>>

FloodStep ==
    /\ Traversing
    /\ layout' = LayoutIteration(TheGraph, layout)
    /\ mapCall' = [mapCall EXCEPT !.outcome = IF layout'.queue = <<>> THEN "returned"
                                              ELSE "running"]
    /\ UNCHANGED <<nodes, rooms, edges>>
    /\ UNCHANGED <<telnetVars, ruleVars, timerVars, appVars>>

NextFlood == FloodAddRoom \/ FloodUpsert \/ FloodBegin \/ FloodStep

\* a loop that has been entered keeps iterating
SpecFlood == LayoutStart /\ [][NextFlood]_vars /\ WF_vars(FloodStep)

(***************************************************************************)
(* C1 -- chunk-boundary insensitivity of feed: once the whole stream has   *)
(* been fed to a fresh parser in two chunks, the frames returned (the two  *)
(* lists, in order) and the callback invocations are those of feeding the  *)
(* stream to a fresh parser in one call.                                   *)
(***************************************************************************)
WholeFeed == FeedResult(FreshParser, input)

C1_ChunkBoundaryInsensitive ==
    (pos = Len(input) /\ Len(returned) = 2)
        => (Flatten(returned) = WholeFeed[2] /\ calls = WholeFeed[3])

(***************************************************************************)
(* C2 -- registry priority ordering: when check_triggers ran on a text     *)
(* that several enabled rules match, it invoked only the rule that comes   *)
(* first by priority descending (higher number earlier), ties broken by    *)
(* registration order.                                                     *)
(***************************************************************************)
MatchingTriggers(text) ==
    {i \in 1..Len(_triggers) :
        _triggers[i].enabled /\ Search(_triggers[i].regex, text)}

RegisteredAt(name) == CHOOSE k \in 1..Len(regOrder) : regOrder[k] = name

FirstByPriority(text) ==
    CHOOSE i \in MatchingTriggers(text) :
        \A j \in MatchingTriggers(text) :
            \/ _triggers[i].priority > _triggers[j].priority
            \/ /\ _triggers[i].priority = _triggers[j].priority
               /\ RegisteredAt(_triggers[i].name) <= RegisteredAt(_triggers[j].name)

FirstInRegistry(text) ==
    CHOOSE i \in MatchingTriggers(text) : \A j \in MatchingTriggers(text) : i <= j

C3_FirstMatchWins ==
    lastCall.op = "check_triggers" =>
        IF MatchingTriggers(lastCall.text) = {}
        THEN /\ lastCall.invoked = <<>>
             /\ lastCall.outcome = "returned"
             /\ lastCall.ret = FALSE
        ELSE /\ lastCall.invoked = <<_triggers[FirstInRegistry(lastCall.text)].name>>
             /\ lastCall.outcome = "returned"
             /\ lastCall.ret = _triggers[FirstInRegistry(lastCall.text)].gag

(***************************************************************************)
(* C4 -- alias chain bound: one outgoing command expands aliases at most   *)
(* five times (the configured depth), so the chain started by send_to_mud  *)
(* terminates normally even when an alias's action re-emits text that      *)
(* matches the same alias.                                                 *)
(***************************************************************************)
C4_AliasChainBound ==
    lastCall.op = "send_to_mud" =>
        /\ Len(lastCall.invoked) <= 5
        /\ (\A k \in 1..Len(lastCall.invoked) :
                _aliases[lastCall.invoked[k]].action.kind # "raise")
            => lastCall.outcome = "returned"

(***************************************************************************)
(* C5 -- ActionFault containment: a call that dispatched a rule's action   *)
(* (check_triggers for a trigger, send_to_mud through AliasManager.process *)
(* for an alias) has returned to its caller, also when the action raised.  *)
(***************************************************************************)
C5_ActionFaultContained ==
    (lastCall.op \in {"check_triggers", "send_to_mud"} /\ lastCall.invoked # <<>>)
        => lastCall.outcome = "returned"

(***************************************************************************)
(* C6 -- bad-pattern isolation on load: after a reload of triggers or of   *)
(* aliases from a batch that holds an enabled record with a bad pattern,   *)
(* every enabled record of the batch whose pattern compiles is registered  *)
(* in the working set.                                                     *)
(***************************************************************************)
LoadableRows(category) ==
    {i \in 1..Len(db) :
        db[i].category = category /\ db[i].enabled /\ Compiles(db[i].pattern)}

BadRows(category) ==
    {i \in 1..Len(db) :
        db[i].category = category /\ db[i].enabled /\ ~Compiles(db[i].pattern)}

C6_BadPatternIsolated ==
    /\ (lastCall.op = "TriggerManager.reload" /\ BadRows("trigger") # {}) =>
          \A i \in LoadableRows("trigger") :
             \E k \in 1..Len(_triggers) : _triggers[k].name = db[i].name
    /\ (lastCall.op = "AliasManager.reload" /\ BadRows("alias") # {}) =>
          Len(_aliases) = Cardinality(LoadableRows("alias"))

(***************************************************************************)
(* C7 -- upsert idempotence: from every graph the model reaches, and for   *)
(* every room info and exit types, a second add_or_update_room with the    *)
(* same arguments leaves the node set, the room fields, the edge set and   *)
(* the edge attributes as the first call left them, and ends as the first  *)
(* call ended.                                                             *)
(***************************************************************************)
AfterCall(g) == Graph(g.nodes, g.rooms, g.edges)

C7_UpsertIdempotent ==
    \A info \in MapInfos, exit_types \in MapExitTypes :
        LET once  == AddOrUpdateRoom(TheGraph, info, exit_types)
            twice == AddOrUpdateRoom(AfterCall(once), info, exit_types)
        IN  twice = once

\* an upsert of R has returned on a graph where R carries telemetry fields
\* and two links to A, over an edge with a recorded door state
C7_Witness ==
    /\ mapCall.op = "add_or_update_room"
    /\ mapCall.outcome = "returned"
    /\ "R" \in nodes
    /\ rooms["R"].desc = "hall"
    /\ rooms["R"].links = <<<<"north", "A">>, <<"east", "A">>>>
    /\ EdgeKey("R", "A") \in DOMAIN edges
    /\ edges[EdgeKey("R", "A")].door_open = <<FALSE>>

(***************************************************************************)
(* C8 -- layout overlap policy: in a result of layout_from_root no two     *)
(* rooms share a grid coordinate and every claimed cell belongs to the     *)
(* room placed on it; a room the overlap check skipped is not on the cell  *)
(* it was skipped for, which another room holds.  (It is in the result     *)
(* only when another link reached it at a free cell.)                      *)
(***************************************************************************)
Placed == DOMAIN layout.positions

NoSharedCell ==
    \A x \in Placed, y \in Placed :
        x # y => layout.positions[x] # layout.positions[y]

CellsKeepTheirOwner ==
    /\ \A cell \in DOMAIN layout.coord_owner :
          /\ layout.coord_owner[cell] \in Placed
          /\ layout.positions[layout.coord_owner[cell]] = cell
    /\ \A x \in Placed : layout.positions[x] \in DOMAIN layout.coord_owner

C8_OverlapPolicy ==
    /\ NoSharedCell
    /\ CellsKeepTheirOwner
    /\ \A i \in 1..Len(layout.overlaps) :
          LET neigh  == layout.overlaps[i][1]
              target == layout.overlaps[i][2]
          IN  /\ target \in DOMAIN layout.coord_owner
              /\ layout.coord_owner[target] # neigh
              /\ neigh \in Placed => layout.positions[neigh] # target

\* the statement as the specification words it: the room that lost the cell
\* is omitted from the result entirely
C8_LoserOmittedEntirely ==
    /\ NoSharedCell
    /\ CellsKeepTheirOwner
    /\ \A i \in 1..Len(layout.overlaps) : layout.overlaps[i][1] \notin Placed

\* a layout from R in which A took the cell north of R and B, linked to the
\* same cell, was skipped
C8_Witness ==
    /\ mapCall.op = "layout_from_root"
    /\ layout.root = "R"
    /\ layout.overlaps = <<<<"B", <<0, -1>>>>>>
    /\ "A" \in Placed
    /\ layout.positions["A"] = <<0, -1>>
    /\ "B" \notin Placed

(***************************************************************************)
(* C9 -- border blocks traversal.  In a layout from R, a room N that only  *)
(* R links to and whose edge to R is marked border is not in the result.   *)
(* In a layout from R that follows set_border(R, N, False) clearing that   *)
(* border, with N linked only from R and by one link, N is in the result   *)
(* exactly when the link's direction has a compass base and no other room  *)
(* holds the cell at R's coordinate plus that base's delta, and N is then  *)
(* on that cell.                                                           *)
(***************************************************************************)
LinksFromTo(h, n) ==
    {i \in 1..Len(rooms[h].links) : rooms[h].links[i][2] = n}

LinkedOnlyFrom(r, n) ==
    /\ r \in nodes
    /\ n \in nodes
    /\ n # r
    /\ LinksFromTo(r, n) # {}
    /\ \A h \in nodes \ {r} : LinksFromTo(h, n) = {}

BorderHidesRoom ==
    \A r \in nodes, n \in nodes :
        (/\ mapCall.op = "layout_from_root"
         /\ layout.root = r
         /\ LinkedOnlyFrom(r, n)
         /\ EdgeKey(r, n) \in DOMAIN edges
         /\ edges[EdgeKey(r, n)].border = <<TRUE>>)
        => n \notin Placed

\* the layouts from r that follow the clearing of the border between r and n,
\* where n hangs on one link of r
AfterBorderCleared(r, n) ==
    /\ mapCall.op = "layout_from_root"
    /\ mapCall.cleared = EdgeKey(r, n)
    /\ layout.root = r
    /\ LinkedOnlyFrom(r, n)
    /\ Cardinality(LinksFromTo(r, n)) = 1

TheLinkBase(r, n) ==
    _strip_vertical_suffix(rooms[r].links[CHOOSE i \in LinksFromTo(r, n) : TRUE][1])

C9_BorderBlocksTraversal ==
    /\ BorderHidesRoom
    /\ \A r \in nodes, n \in nodes :
          AfterBorderCleared(r, n) =>
             LET base == TheLinkBase(r, n) IN
             /\ n \in Placed <=>
                   /\ base \in BaseDirections
                   /\ \A x \in Placed \ {n} :
                         layout.positions[x] # _TXT_TO_DELTA(base)
             /\ n \in Placed => layout.positions[n] = _TXT_TO_DELTA(base)

\* the statement as the specification words it: once the border is cleared
\* N is in the result, at R's coordinate plus the delta of the link
C9_ClearedBorderShowsRoom ==
    /\ BorderHidesRoom
    /\ \A r \in nodes, n \in nodes :
          AfterBorderCleared(r, n) =>
             LET base == TheLinkBase(r, n) IN
             /\ n \in Placed
             /\ base \in BaseDirections
             /\ layout.positions[n] = _TXT_TO_DELTA(base)

\* the border between R and B was cleared and the layout from R that
\* followed placed B north of R
C9_Witness ==
    /\ AfterBorderCleared("R", "B")
    /\ "B" \in Placed
    /\ layout.positions["B"] = <<0, -1>>

(***************************************************************************)
(* C10 -- edge attributes survive telemetry: from every graph the model    *)
(* reaches, and for every room info and exit types, add_or_update_room     *)
(* keeps every existing edge and its border flag, and changes an edge's    *)
(* door state only when a link of the upserted room to the edge's other    *)
(* end has exit code 101 or -101, to open for 101 and closed for -101.     *)
(***************************************************************************)
C10_EdgeAttributesSurvive ==
    \A info \in MapInfos, exit_types \in MapExitTypes :
        LET after == AddOrUpdateRoom(TheGraph, info, exit_types) IN
        \A e \in DOMAIN edges :
            /\ e \in DOMAIN after.edges
            /\ after.edges[e].border = edges[e].border
            /\ after.edges[e].door_open # edges[e].door_open =>
                  \E i \in 1..Len(after.rooms[info.hash].links) :
                     LET link == after.rooms[info.hash].links[i]
                         code == ExitCode(exit_types, link[1])
                     IN  /\ EdgeKey(info.hash, link[2]) = e
                         /\ code \in {<<OPEN_DOOR>>, <<CLOSED_DOOR>>}
                         /\ after.edges[e].door_open = <<code = <<OPEN_DOOR>>>>

\* an upsert has returned over an edge that already carried a border and an
\* open door
C10_Witness ==
    /\ mapCall.op = "add_or_update_room"
    /\ mapCall.outcome = "returned"
    /\ EdgeKey("R", "A") \in DOMAIN edges
    /\ edges[EdgeKey("R", "A")].border = <<TRUE>>
    /\ edges[EdgeKey("R", "A")].door_open = <<TRUE>>

(***************************************************************************)
(* C11 -- subnegotiation cap: when MAX_SB_LEN payload bytes of an open     *)
(* subnegotiation have been buffered and one more payload byte arrives (a  *)
(* plain byte, or the byte 255 escaped as IAC IAC), so that more than the  *)
(* cap has been fed without IAC SE, feed returns no Subnegotiation frame   *)
(* and leaves the parser in the 'data' state with the buffer discarded;    *)
(* and a printable byte fed in the 'data' state is returned as a data      *)
(* frame.                                                                  *)
(***************************************************************************)
LastReturned == returned[Len(returned)]

OneMorePayloadByte ==
    input' = input \o <<LetterA>> \/ input' = input \o <<IAC, IAC>>

CapReached == state = "sb_data" /\ Len(sb_buf) = MAX_SB_LEN

RunDiscarded ==
    /\ state' = "data"
    /\ sb_buf' = <<>>
    /\ \A i \in 1..Len(LastReturned') : LastReturned'[i].typ # "sb"

C11_SubnegotiationCap ==
    [][/\ (CapReached /\ OneMorePayloadByte) => RunDiscarded
       /\ (state = "data" /\ input' = input \o <<LetterA>>)
             => (state' = "data" /\ LastReturned' = <<DataFrame(<<LetterA>>)>>)]_vars

(***************************************************************************)
(* C14 -- parse anomalies are recovered locally: every feed returns a      *)
(* frame list, and after an unrecognized byte following IAC, after a       *)
(* payload byte that takes a subnegotiation over the cap, after a byte     *)
(* other than SE or IAC following IAC inside a subnegotiation, and after a *)
(* GMCP payload that is not UTF-8, the parser is in the 'data' state with  *)
(* nothing of the broken sequence kept or delivered; a printable byte fed  *)
(* in the 'data' state is framed as data.                                  *)
(***************************************************************************)
Arrived(chunk) == input' = input \o chunk

C14_AnomaliesRecovered ==
    [][/\ Len(returned') = Len(returned) + 1
       /\ (state = "data" /\ Arrived(<<IAC, LetterA>>))
             => (state' = "data" /\ LastReturned' = <<>> /\ calls' = calls)
       /\ (CapReached /\ OneMorePayloadByte)
             => (state' = "data" /\ LastReturned' = <<>> /\ calls' = calls)
       /\ (state = "sb_data" /\ Arrived(<<IAC, LetterA>>))
             => (state' = "data" /\ LastReturned' = <<>> /\ calls' = calls)
       /\ (state = "sb_data" /\ sb_opt = ATCP2 /\ ~Utf8Decode(sb_buf)[1]
              /\ Arrived(<<IAC, SE>>))
             => (/\ state' = "data"
                 /\ LastReturned' = <<SbFrame(ATCP2, sb_buf)>>
                 /\ calls' = calls)
       /\ (state = "data" /\ Arrived(<<LetterA>>))
             => (/\ state' = "data"
                 /\ LastReturned' = <<DataFrame(<<LetterA>>)>>
                 /\ calls' = Append(calls, OnData(<<LetterA>>)))]_vars

(***************************************************************************)
(* C15 -- newline normalization and coalescing: when the whole stream,     *)
(* made of plain data bytes only (at least one; no IAC, no NUL), has been  *)
(* fed in one call, feed returned one data frame and made one on_data      *)
(* call, both with the stream in which every CR LF pair and every other CR *)
(* is replaced by LF; and no frame list returned by a feed holds two       *)
(* adjacent data frames.                                                   *)
(***************************************************************************)
PlainData(b) == b # <<>> /\ \A i \in 1..Len(b) : b[i] \notin {IAC, NUL}

\* one pass over the bytes: CR LF -> LF, CR -> LF
RECURSIVE LinesNormalized(_)
LinesNormalized(b) ==
    IF b = <<>> THEN <<>>
    ELSE IF b[1] # CR THEN <<b[1]>> \o LinesNormalized(Tail(b))
    ELSE IF Len(b) >= 2 /\ b[2] = LF THEN <<LF>> \o LinesNormalized(Tail(Tail(b)))
    ELSE <<LF>> \o LinesNormalized(Tail(b))

FedInOneCall == Len(returned) = 1 /\ pos = Len(input)

C15_NewlinesNormalizedAndCoalesced ==
    /\ (FedInOneCall /\ PlainData(input)) =>
          /\ returned[1] = <<DataFrame(LinesNormalized(input))>>
          /\ calls = <<OnData(LinesNormalized(input))>>
    /\ \A k \in 1..Len(returned) : \A i \in 1..(Len(returned[k]) - 1) :
          ~(returned[k][i].typ = "data" /\ returned[k][i + 1].typ = "data")

C15_Witness ==
    /\ FedInOneCall /\ PlainData(input)
    /\ \E i \in 1..(Len(input) - 1) : input[i] = CR /\ input[i + 1] = LF
    /\ input[Len(input)] = CR
    /\ calls = <<OnData(LinesNormalized(input))>>

(***************************************************************************)
(* C20 -- bounded subnegotiation buffer: the payload buffer never holds    *)
(* more than MAX_SB_LEN bytes, and no Subnegotiation frame returned by     *)
(* feed carries a payload longer than MAX_SB_LEN.                          *)
(***************************************************************************)
C20_SbBufferBounded ==
    /\ Len(sb_buf) <= MAX_SB_LEN
    /\ \A k \in 1..Len(returned) : \A i \in 1..Len(returned[k]) :
          returned[k][i].typ = "sb" => Len(returned[k][i].payload) <= MAX_SB_LEN

(***************************************************************************)
(* C12 -- synchronous timer cancellation: once TimerManager.delete(name),  *)
(* or a toggle or update after which the timer rule is not enabled, has    *)
(* returned, no QTimer is running for that name; the same holds once the   *)
(* reload that follows (load_all_scripts) has returned, for every name     *)
(* without an enabled timer rule; and a timeout never runs the code of a   *)
(* name without an enabled timer rule.                                     *)
(***************************************************************************)
EnabledTimer(name) ==
    \E i \in 1..Len(db) :
        db[i].name = name /\ db[i].category = "timer" /\ db[i].enabled

Running(name) == \E i \in 1..Len(qtimers) : qtimers[i].name = name /\ qtimers[i].active

CancellingCalls == {"TimerManager.delete", "TimerManager.toggle", "TimerManager.update"}

C12_TimerCancelled ==
    /\ (lastCall.op \in CancellingCalls /\ lastCall.outcome = "returned"
          /\ ~EnabledTimer(lastCall.text[1]))
         => ~Running(lastCall.text[1])
    /\ (lastCall.op = "load_all_scripts" /\ lastCall.outcome = "returned")
         => \A name \in TimerNames : ~EnabledTimer(name) => ~Running(name)
    /\ lastCall.op = "timeout" => EnabledTimer(lastCall.text[1])

(***************************************************************************)
(* C13 -- working-set invariant: after any sequence of registry            *)
(* operations the trigger working set holds no two rules of the same name  *)
(* and holds only enabled rules.                                           *)
(***************************************************************************)
C13_WorkingSetUniqueAndEnabled ==
    /\ \A i, j \in 1..Len(_triggers) : _triggers[i].name = _triggers[j].name => i = j
    /\ \A i \in 1..Len(_triggers) : _triggers[i].enabled

(***************************************************************************)
(* C16 -- end-to-end layout scenario: on a new graph, after upserting room *)
(* R with links {north: A, northup: B} and no exit types,                  *)
(* layout_from_root(R) places R at (0,0) and exactly one of A and B at     *)
(* (0,-1); the other is absent from the result.                            *)
(***************************************************************************)
ScenarioLinks == <<<<"north", "A">>, <<"northup", "B">>>>

ScenarioLayout(g) ==
    LayoutFromRoot(AddOrUpdateRoom(g, Info("R", <<>>, <<>>, <<ScenarioLinks>>), <<>>), "R")

ScenarioPlaced(positions) ==
    /\ "R" \in DOMAIN positions
    /\ positions["R"] = <<0, 0>>
    /\ \E one \in {"A", "B"} :
          /\ one \in DOMAIN positions
          /\ positions[one] = <<0, -1>>
          /\ \A other \in {"A", "B"} \ {one} : other \notin DOMAIN positions

C16_LayoutScenario == nodes = {} => ScenarioPlaced(ScenarioLayout(TheGraph).positions)

(***************************************************************************)
(* C17 -- alias intercept or pass-through: a command submitted on an open  *)
(* connection either has the first matching alias's action invoked and is  *)
(* not transmitted itself, or matches no alias and is handed to the        *)
(* connection unmodified, as the only thing sent; never both, never        *)
(* neither.                                                                *)
(***************************************************************************)
MatchingAliases(text) == {i \in 1..Len(_aliases) : Match(_aliases[i].regex, text)}

Intercepted(text, call) ==
    /\ MatchingAliases(text) # {}
    /\ call.invoked # <<>>
    /\ \A i \in MatchingAliases(text) : call.invoked[1] <= i
    /\ call.invoked[1] \in MatchingAliases(text)
    /\ \A k \in 1..Len(call.sent) : call.sent[k] # text

PassedThrough(text, call) ==
    /\ MatchingAliases(text) = {}
    /\ call.invoked = <<>>
    /\ call.sent = <<text>>

C17_InterceptOrPassThrough ==
    \A text \in Texts :
        LET call == SendToMudAt(_aliases, TRUE, text, 1, <<>>, <<>>)
        IN  Intercepted(text, call) # PassedThrough(text, call)

\* send_to_mud has run a command that two registered aliases match, and
\* the first one's action was the one invoked
C17_Witness ==
    /\ lastCall.op = "send_to_mud"
    /\ Cardinality(MatchingAliases(lastCall.text)) = MaxAliases
    /\ Intercepted(lastCall.text, lastCall)
    /\ _aliases[1].action # _aliases[MaxAliases].action

(***************************************************************************)
(* C18 -- read-only telemetry snapshot: whatever a rule's action does with *)
(* the gmcp value it is handed, the application's telemetry snapshot is    *)
(* the same after the action returns as before it ran.                     *)
(***************************************************************************)
ActionReturned == lastCall'.op = "exec_script" /\ lastCall'.outcome = "returned"

C18_SnapshotReadOnly == [][ActionReturned => gmcp_data' = gmcp_data]_vars

(***************************************************************************)
(* C19 -- atomic reload: the working sets a reload leaves behind, also     *)
(* when it stops on an error, are each either the complete set of before   *)
(* the reload or the complete rebuilt set (one rule per enabled row of     *)
(* the category whose pattern compiles), never an empty or partially       *)
(* rebuilt one.                                                            *)
(***************************************************************************)
ReloadCalls == {"TriggerManager.reload", "AliasManager.reload", "managers.load_all_scripts"}

CompleteTriggers(ts) ==
    /\ Len(ts) = Cardinality(LoadableRows("trigger"))
    /\ \A i \in LoadableRows("trigger") : \E k \in 1..Len(ts) : ts[k].name = db[i].name

CompleteAliases(als) ==
    /\ Len(als) = Cardinality(LoadableRows("alias"))
    /\ \A i \in LoadableRows("alias") : \E k \in 1..Len(als) : als[k].regex = db[i].pattern

C19_AtomicReload ==
    [][lastCall'.op \in ReloadCalls =>
          /\ _triggers' = _triggers \/ CompleteTriggers(_triggers')
          /\ _aliases' = _aliases \/ CompleteAliases(_aliases')]_vars

(***************************************************************************)
(* C21 -- neighbor closure with stubs: after add_or_update_room(info),     *)
(* every non-empty neighbor id in the room's links is a node of the graph  *)
(* and is joined to the room by an edge, and a neighbor that was not a     *)
(* node before is an unexplored stub.                                      *)
(***************************************************************************)
\* Room.explored: self.terrain != "unexplored"; Terrain(-1) stands for the
\* unexplored sentinel
explored(room) == room.terrain # Terrain(-1)

LinksAfter(info) ==
    IF info.links # <<>> THEN info.links[1]
    ELSE IF info.hash \in nodes THEN rooms[info.hash].links
    ELSE <<>>

C21_NeighborClosure ==
    \A info \in MapInfos, exit_types \in MapExitTypes :
        info.hash # "" =>
            LET g == AddOrUpdateRoom(TheGraph, info, exit_types)
                links == LinksAfter(info)
            IN  \A k \in 1..Len(links) :
                    LET dest == links[k][2] IN
                    dest # "" =>
                        /\ dest \in g.nodes
                        /\ has_edge(g, info.hash, dest)
                        /\ dest \notin nodes => ~explored(g.rooms[dest])

(***************************************************************************)
(* C22 -- layout termination: on every graph, cyclic ones and rooms that   *)
(* link to themselves included, and from every root, the traversal of      *)
(* layout_from_root ends, and each room is enqueued and given a coordinate *)
(* at most once: an iteration appends to the queue only rooms that had no  *)
(* coordinate, each once, and never changes a coordinate already given.    *)
(***************************************************************************)
Enqueued == SubSeq(layout'.queue, Len(layout.queue), Len(layout'.queue))

PlacedOnce ==
    /\ SubSeq(layout'.queue, 1, Len(layout.queue) - 1) = Tail(layout.queue)
    /\ \A k \in 1..Len(Enqueued) : Enqueued[k] \notin DOMAIN layout.positions
    /\ \A j, k \in 1..Len(Enqueued) : Enqueued[j] = Enqueued[k] => j = k
    /\ DOMAIN layout'.positions =
          DOMAIN layout.positions \cup {Enqueued[k] : k \in 1..Len(Enqueued)}
    /\ \A h \in DOMAIN layout.positions : layout'.positions[h] = layout.positions[h]

PlacedBy(p, i, n) ==
    LET link == rooms[p].links[i]
        base == _strip_vertical_suffix(link[1])
    IN  /\ link[2] = n
        /\ base \in BaseDirections
        /\ layout.positions[n] = <<layout.positions[p][1] + _TXT_TO_DELTA(base)[1],
                                   layout.positions[p][2] + _TXT_TO_DELTA(base)[2]>>
        /\ ~(EdgeKey(p, n) \in DOMAIN edges /\ edges[EdgeKey(p, n)].border = <<TRUE>>)

C23_PlacementInvariant ==
    (mapCall.op = "layout_from_root" /\ layout.root \in nodes) =>
        /\ layout.root \in Placed
        /\ layout.positions[layout.root] = <<0, 0>>
        /\ \A n \in Placed \ {layout.root} :
              \E p \in Placed \ {n} : \E i \in 1..Len(rooms[p].links) : PlacedBy(p, i, n)

\* a layout from R that placed A north of R and B north of A, B by a link
\* with a vertical suffix
C23_Witness ==
    /\ mapCall.op = "layout_from_root"
    /\ layout.root = "R"
    /\ Placed = {"R", "A", "B"}
    /\ layout.positions["B"] = <<0, -2>>
    /\ \E i \in 1..Len(rooms["A"].links) : rooms["A"].links[i] = <<"northup", "B">>

(***************************************************************************)
(* The connection's send queue: the application sends text and GMCP        *)
(* messages, the socket connects and disconnects, the server's GA frames   *)
(* arrive, and the event loop runs the GA timeout and the zero-delay       *)
(* continuations.  The event loop runs a timer that is due.                *)
(***************************************************************************)
MaxMsgs == 4

ConnSend ==
    /\ Accepted < MaxMsgs
    /\ send
    /\ UNCHANGED <<telnetVars, ruleVars, mapVars, timerVars, gmcp_data, uiVars, connected>>

ConnSendGmcp ==
    /\ Accepted < MaxMsgs
    /\ send_gmcp
    /\ UNCHANGED <<telnetVars, ruleVars, mapVars, timerVars, gmcp_data, uiVars, connected>>

ConnGa ==
    /\ connected
    /\ _on_ga
    /\ UNCHANGED <<telnetVars, ruleVars, mapVars, timerVars, gmcp_data, uiVars, connected>>

ConnGaTimeout ==
    /\ _ga_timer
    /\ _on_ga_timeout
    /\ UNCHANGED <<telnetVars, ruleVars, mapVars, timerVars, gmcp_data, uiVars, connected>>

ConnContinuation ==
    /\ single_shots > 0
    /\ continuation
    /\ UNCHANGED <<telnetVars, ruleVars, mapVars, timerVars, gmcp_data, uiVars, connected>>

\* the socket reaches or leaves ConnectedState
ConnSocket ==
    /\ connected' = ~connected
    /\ connCall' = [op |-> "socket", error |-> FALSE]
    /\ UNCHANGED <<telnetVars, ruleVars, mapVars, timerVars, gmcp_data, uiVars,
                   _send_queue, _waiting_for_ga, _ga_timer, single_shots,
                   written, ga_since_write>>

NextConn ==
    \/ ConnSend \/ ConnSendGmcp \/ ConnGa
    \/ ConnGaTimeout \/ ConnContinuation \/ ConnSocket

ConnStart == IdleApp /\ IdleTelnet /\ IdleRules /\ IdleMap /\ IdleTimers

SpecConn ==
    ConnStart /\ [][NextConn]_vars
    /\ WF_vars(ConnGaTimeout) /\ WF_vars(ConnContinuation)

(***************************************************************************)
(* The input field: the user types letters, presses Backspace and Enter,   *)
(* and the server's ECHO negotiation switches masking on and off.  The     *)
(* field holds at most MaxInput characters and the user submits at most    *)
(* MaxSubmits lines in normal mode.                                        *)
(***************************************************************************)
MaxInput == 2

MaxSubmits == 2

InputKeys == {"a", "b"}

InputType ==
    /\ Len(plain_text) < MaxInput \/ selected
    /\ Len(_buffer) < MaxInput
    /\ \E c \in InputKeys : keyPressText(c)
    /\ UNCHANGED <<telnetVars, ruleVars, mapVars, timerVars, gmcp_data, connVars>>

InputBackspace ==
    /\ keyPressBackspace
    /\ UNCHANGED <<telnetVars, ruleVars, mapVars, timerVars, gmcp_data, connVars>>

InputEnter ==
    /\ _masking \/ Len(console_out) < MaxSubmits
    /\ handle_input
    /\ UNCHANGED <<telnetVars, ruleVars, mapVars, timerVars, gmcp_data, connVars>>

InputNegotiation ==
    /\ \E cmd \in {WILL, WONT} : _on_negotiation(cmd)
    /\ UNCHANGED <<telnetVars, ruleVars, mapVars, timerVars, gmcp_data, connVars>>

NextInput == InputType \/ InputBackspace \/ InputEnter \/ InputNegotiation

InputStart == IdleApp /\ IdleTelnet /\ IdleRules /\ IdleMap /\ IdleTimers

SpecInput == InputStart /\ [][NextInput]_vars

(***************************************************************************)
(* MapRenderer (ui/widgets/mapper/controller/map_renderer.py).  The view   *)
(* rectangle is the set of grid cells it intersects; a renderer value      *)
(* holds the rooms that have an icon, the connector drawn for each edge    *)
(* key, and whether the pass ended in an exception.                        *)
(***************************************************************************)
\* RoomIcon.__init__(self, grid_x, grid_y, short_desc, terrain)
RoomIconParams == <<"grid_x", "grid_y", "short_desc", "terrain">>

\* _clear_scene()
ClearScene == [icons |-> {}, connectors |-> <<>>, drawn_edges |-> {}, raised |-> FALSE]

\* _add_icon(scene, room_hash, gx, gy): RoomIcon(room_hash, gx, gy, room.desc,
\* room.terrain) hands five arguments to the constructor, a TypeError unless
\* the constructor takes as many
_add_icon(g, r, room_hash, gx, gy) ==
    LET args == <<room_hash, gx, gy, "room.desc", "room.terrain">> IN
    IF Len(args) # Len(RoomIconParams) THEN [r EXCEPT !.raised = TRUE]
    ELSE [r EXCEPT !.icons = @ \cup {room_hash}]

\* the loop over positions.items(); it ends at the first exception
RECURSIVE AddIcons(_, _, _, _, _)
AddIcons(g, r, positions, view, todo) ==
    IF r.raised \/ todo = {} THEN r
    ELSE LET room_hash == CHOOSE h \in todo : TRUE
             next == IF positions[room_hash] \in view
                     THEN _add_icon(g, r, room_hash, positions[room_hash][1],
                                    positions[room_hash][2])
                     ELSE r
         IN  AddIcons(g, next, positions, view, todo \ {room_hash})

NoConnector == [kind |-> "none"]

\* CardinalDirectionConnector(icon_a, icon_b, border=...)
DirectConnector(a, b, border) ==
    [kind |-> "direct", icon_a |-> a, icon_b |-> b, border |-> border]

\* CardinalDirectionConnector(icon, target_pos=target, border=True)
ArrowConnector(anchor, target) ==
    [kind |-> "arrow", icon_a |-> anchor, target_pos |-> target, border |-> TRUE]

\* next((d for d, dst in links.items() if dst == other), "")
RECURSIVE FirstDirTo(_, _)
FirstDirTo(links, other) ==
    IF links = <<>> THEN ""
    ELSE IF links[1][2] = other THEN links[1][1]
    ELSE FirstDirTo(Tail(links), other)

\* NUM_TO_DELTA.get(TEXT_TO_NUM.get(split_suffix(dir_txt)[0], 8), (0, -1))
ArrowDelta(dir_txt) ==
    LET base == _strip_vertical_suffix(dir_txt) IN
    IF base \in BaseDirections THEN _TXT_TO_DELTA(base) ELSE _TXT_TO_DELTA("north")

\* _create_border_arrow(a, b, positions)
_create_border_arrow(g, r, positions, a, b) ==
    LET anchor == IF a \in DOMAIN positions THEN a ELSE b
        other  == IF anchor = a THEN b ELSE a
    IN  IF anchor \notin r.icons THEN NoConnector
        ELSE IF other \in r.icons THEN DirectConnector(anchor, other, TRUE)
        ELSE LET delta == ArrowDelta(FirstDirTo(g.rooms[anchor].links, other)) IN
             ArrowConnector(anchor, <<positions[anchor][1] + delta[1],
                                      positions[anchor][2] + delta[2]>>)

\* the rectangle spanned by two icons intersects the view
SpanInView(positions, view, a, b) ==
    \E c \in view :
        /\ \E x \in {positions[a][1], positions[b][1]} : c[1] >= x
        /\ \E x \in {positions[a][1], positions[b][1]} : c[1] <= x
        /\ \E y \in {positions[a][2], positions[b][2]} : c[2] >= y
        /\ \E y \in {positions[a][2], positions[b][2]} : c[2] <= y

\* the body of the loop over global_graph.edges(), for the edge (a, b)
EdgeConnector(g, r, positions, view, a, b) ==
    IF a \in r.icons /\ b \in r.icons
    THEN IF SpanInView(positions, view, a, b)
         THEN DirectConnector(a, b, is_border(g, a, b))
         ELSE NoConnector
    ELSE IF is_border(g, a, b) /\ (a \in r.icons \/ b \in r.icons)
    THEN _create_border_arrow(g, r, positions, a, b)
    ELSE NoConnector

\* the endpoints of an edge in the order edges() reports them; flip chooses
\* between the two orders
EdgeEnds(key, flip) ==
    LET a == CHOOSE x \in key : TRUE
        b == IF key = {a} THEN a ELSE CHOOSE x \in key : x # a
    IN  IF flip THEN <<b, a>> ELSE <<a, b>>

\* render(root_hash, positions)
Render(g, root_hash, positions, view, flip) ==
    IF root_hash = "" THEN ClearScene
    ELSE LET r == AddIcons(g, ClearScene, positions, view, DOMAIN positions) IN
         IF r.raised THEN r
         ELSE LET conn(key) == EdgeConnector(g, r, positions, view,
                                             EdgeEnds(key, flip)[1],
                                             EdgeEnds(key, flip)[2])
                  drawn == {key \in DOMAIN g.edges : conn(key) # NoConnector}
              IN  [r EXCEPT !.connectors = [key \in drawn |-> conn(key)],
                            !.drawn_edges = drawn]

(***************************************************************************)
(* C24 -- edge classification for rendering: in a render pass over the     *)
(* layout just computed, an edge whose two endpoints are positioned and in *)
(* view is drawn as a direct connector; a border edge with exactly one     *)
(* positioned endpoint, in view, is drawn as an arrow anchored there and   *)
(* pointing one cell in the link's direction (north when unresolved); an   *)
(* edge with no positioned endpoint, or a non-border edge with only one,   *)
(* is not drawn.                                                           *)
(***************************************************************************)
Views == {{}, {<<0, 0>>}, {<<0, 0>>, <<0, -1>>}, {<<0, 0>>, <<0, -1>>, <<0, -2>>}}

Shown(view) == {h \in Placed : layout.positions[h] \in view}

C24_EdgeClassification ==
    (mapCall.op = "layout_from_root" /\ layout.root \in nodes) =>
        \A view \in Views, flip \in BOOLEAN :
            LET r == Render(TheGraph, layout.root, layout.positions, view, flip) IN
            \A key \in DOMAIN edges :
                LET a == EdgeEnds(key, flip)[1]
                    b == EdgeEnds(key, flip)[2]
                    border == is_border(TheGraph, a, b)
                IN  /\ (key \subseteq Shown(view)) =>
                            /\ key \in DOMAIN r.connectors
                            /\ r.connectors[key].kind = "direct"
                    /\ (border /\ Cardinality(key \cap Placed) = 1
                               /\ key \cap Placed \subseteq Shown(view)) =>
                            /\ key \in DOMAIN r.connectors
                            /\ r.connectors[key].kind = "arrow"
                            /\ r.connectors[key].icon_a \in key \cap Placed
                    /\ (key \cap Placed = {}
                            \/ (~border /\ Cardinality(key \cap Placed) = 1)) =>
                            key \notin DOMAIN r.connectors

(***************************************************************************)
(* C25 -- go-ahead gating: once a GMCP message has been written, the next  *)
(* write happens only in the handling of a GA frame or of the GA timeout,  *)
(* or after one of them was handled.                                       *)
(***************************************************************************)
Wrote == Len(written') > Len(written)

GmcpOutstanding ==
    written # <<>> /\ written[Len(written)].wait_for_ga /\ ~ga_since_write

C25_GoAheadGating ==
    [][(GmcpOutstanding /\ Wrote) => connCall'.op \in {"_on_ga", "_on_ga_timeout"}]_vars

(***************************************************************************)
(* C26 -- send queue order: the messages handed to the socket are, in      *)
(* order and each once, the first messages accepted; nothing is written    *)
(* twice, skipped or overtaken, and what is not yet written is still       *)
(* queued in order.                                                        *)
(***************************************************************************)
C26_SendQueueOrder ==
    /\ \A i \in 1..Len(written) : written[i].msg = i
    /\ \A i \in 1..Len(_send_queue) : _send_queue[i].msg = Len(written) + i

C26_Witness ==
    /\ Len(written) = MaxMsgs
    /\ written[1].wait_for_ga /\ ~written[2].wait_for_ga
    /\ connCall.op = "_reset_and_send_next"

(***************************************************************************)
(* C27 -- send queue progress: with no GA from the server needed, every    *)
(* accepted message is eventually handed to the socket, and the queue is   *)
(* never non-empty and waiting for GA with neither timer pending.          *)
(***************************************************************************)
Stalled ==
    _send_queue # <<>> /\ _waiting_for_ga /\ ~_ga_timer /\ single_shots = 0

C27_SendQueueProgress ==
    /\ [](~Stalled)
    /\ \A n \in 1..MaxMsgs : (Accepted >= n) ~> (Len(written) >= n)

C27_Witness ==
    /\ _send_queue = <<>> /\ Len(written) = MaxMsgs
    /\ written[1].wait_for_ga
    /\ connCall.op = "_on_ga_timeout"

(***************************************************************************)
(* C28 -- running timers mirror the stored rules: once a TimerManager      *)
(* create, update, delete or toggle has returned, the name it was called   *)
(* with has a running QTimer exactly if an enabled timer record with an    *)
(* interval above zero is stored under it; once a reload of the timers or  *)
(* of the scripts has returned, this holds of every name; and no name ever *)
(* has two running QTimers.                                                *)
(***************************************************************************)
\* the interval a timer record stores: ScriptManager reads it from pattern
TimerInterval(rec) ==
    IF Declares(rec, "interval") THEN rec.interval
    ELSE IF rec.pattern = <<>> THEN 0
    ELSE ParseFloat(rec.pattern)[2]

Mirrored(name) ==
    \E i \in 1..Len(db) :
        /\ db[i].name = name /\ db[i].category = "timer" /\ db[i].enabled
        /\ TimerInterval(db[i]) > 0

RuleCalls ==
    {"TimerManager.create", "TimerManager.update", "TimerManager.delete", "TimerManager.toggle"}

ReloadingCalls == {"TimerManager.reload", "load_all_scripts"}

C28_TimersMirrorRules ==
    /\ (lastCall.op \in RuleCalls /\ lastCall.outcome = "returned")
          => (Running(lastCall.text[1]) <=> Mirrored(lastCall.text[1]))
    /\ (lastCall.op \in ReloadingCalls /\ lastCall.outcome = "returned")
          => \A name \in TimerNames : Running(name) <=> Mirrored(name)
    /\ \A i, j \in 1..Len(qtimers) :
          (qtimers[i].active /\ qtimers[j].active /\ qtimers[i].name = qtimers[j].name)
             => i = j

(***************************************************************************)
(* C29 -- edges follow links: every edge of the graph joins two rooms of   *)
(* which at least one lists the other as the target of a link; an edge     *)
(* whose link was dropped by a later upsert does not stay.                 *)
(***************************************************************************)
Lists(a, b) == \E i \in 1..Len(rooms[a].links) : rooms[a].links[i][2] = b

C29_EdgesFollowLinks ==
    \A key \in DOMAIN edges :
        \E a \in key, b \in key : key = {a, b} /\ (Lists(a, b) \/ Lists(b, a))

(***************************************************************************)
(* C30 -- masked input stays hidden: no character typed while masking was  *)
(* on is in the text the input field shows, in a text echoed to the        *)
(* console, in the command history or in the completion lexicon.           *)
(***************************************************************************)
Hidden(text) == \A i \in 1..Len(text) : ~text[i].masked

C30_MaskedInputHidden ==
    /\ Hidden(plain_text)
    /\ \A i \in 1..Len(console_out) : Hidden(console_out[i])
    /\ \A i \in 1..Len(history) : Hidden(history[i])
    /\ \A i \in 1..Len(lexicon) : Hidden(lexicon[i])

====
